---- MODULE Spec2Model ----
(***************************************************************************)
(* Breather selection decision engine: core/rule_engine.py (RuleEngine),   *)
(* core/data_processor.py (DataProcessor, splash / oil bath assets),       *)
(* core/circulating_processor.py (CirculatingSystemsDataProcessor) and     *)
(* core/calculations.py (ThermalCalculator).                               *)
(*                                                                         *)
(* Conventions of the model                                                *)
(*  - real quantities are fixed point integers in thousandths: air flow in *)
(*    milli-cfm, fluid flow in milli-gpm, volumes in milli-gallons,        *)
(*    lengths in milli-inches; temperatures are whole degrees F;           *)
(*  - a pandas DataFrame of breathers is a record [cols, rows]: the set of *)
(*    its column names and the sequence of its row labels (indices into    *)
(*    Pool) in frame order; boolean-mask filtering is SelectSeq, so labels *)
(*    and order are kept as pandas keeps them;                             *)
(*  - an exception is modelled by the value the enclosing except clause    *)
(*    produces.                                                            *)
(***************************************************************************)
EXTENDS Integers, Sequences, FiniteSets, TLC

\* numeric cell that pd.to_numeric(errors='coerce') turns into NaN; every
\* comparison with it is false
NaN == -1
\* Python None where a column name or a text is expected
None == "None"
\* Python None where a breather row is expected (row labels start at 1)
NoRow == 0
\* a key that has not been stored in a dict yet
Unset == "Unset"

\* a local variable: Let([name \in { value } |-> body]) is body with name
\* bound to value
Let(binding) == binding[CHOOSE name \in DOMAIN binding : TRUE]

-----------------------------------------------------------------------------
(* Catalog columns, as named after ExcelHandler.load_breather_catalog       *)
(* cleaned the headers (strip, newlines to blanks).                         *)

ColBrand == "Brand"
ColModel == "Model"
ColType == "Type"
ColCfm == "Max Air Flow (cfm)"
ColGpm == "Max Fluid Flow (gpm)"
ColHeight == "Height (in)"
ColDiameter == "Diameter (in)"
ColAds == "Adsorption Capacity (mL)"
ColES == "Extended Service"
ColMobile == "Mobile applications"
ColMist == "Integrated oil mist control"
ColVib == "High vibration"
ColRhMid == "Rh 25 to 75%"
ColRhHigh == "Rh >75%"
ColWcLow == "Water contact conditions Low"
ColWcMed == "Water contact conditions Medium"
ColWcHigh == "Water contact conditions High"
ColSumpSplash == "Gearbox, pump, storage Sump Volume MAX gal"
ColSumpCirc == "Circulating/Hyd sump volume max gal."

\* the sheet's column order
AllColumns ==
  << ColBrand, ColModel, ColType, ColCfm, ColGpm, ColHeight, ColDiameter,
     ColAds, ColES, ColMobile, ColMist, ColVib, ColRhMid, ColRhHigh,
     ColWcLow, ColWcMed, ColWcHigh, ColSumpSplash, ColSumpCirc >>

ColumnSet == { AllColumns[i] : i \in DOMAIN AllColumns }

ColumnPos(c) == CHOOSE i \in DOMAIN AllColumns : AllColumns[i] = c

\* col.lower().replace('\n', ' ').replace('\r', ' ').strip()
col_clean(c) ==
  CASE c = ColBrand -> "brand"
    [] c = ColModel -> "model"
    [] c = ColType -> "type"
    [] c = ColCfm -> "max air flow (cfm)"
    [] c = ColGpm -> "max fluid flow (gpm)"
    [] c = ColHeight -> "height (in)"
    [] c = ColDiameter -> "diameter (in)"
    [] c = ColAds -> "adsorption capacity (ml)"
    [] c = ColES -> "extended service"
    [] c = ColMobile -> "mobile applications"
    [] c = ColMist -> "integrated oil mist control"
    [] c = ColVib -> "high vibration"
    [] c = ColRhMid -> "rh 25 to 75%"
    [] c = ColRhHigh -> "rh >75%"
    [] c = ColWcLow -> "water contact conditions low"
    [] c = ColWcMed -> "water contact conditions medium"
    [] c = ColWcHigh -> "water contact conditions high"
    [] c = ColSumpSplash -> "gearbox, pump, storage sump volume max gal"
    [] c = ColSumpCirc -> "circulating/hyd sump volume max gal."

\* Python's `keyword_clean in col_clean` on the names above: equality, and
\* the one proper substring among them
SubstringOf(kw, s) ==
  \/ kw = s
  \/ /\ kw = "sump volume max gal"
     /\ s \in { "gearbox, pump, storage sump volume max gal",
                "circulating/hyd sump volume max gal." }

\* the keywords the rule engine looks columns up by
Keywords ==
  { "integrated oil mist control", "high vibration", "extended service",
    "mobile applications", "rh 25 to 75%", "rh >75%",
    "water contact conditions high", "water contact conditions medium",
    "water contact conditions low", "sump volume max gal",
    "circulating/hyd sump volume max gal." }

\* RuleEngine._find_column.direct_mappings (the newline spellings of the
\* water-contact headers cannot occur after header cleaning and are left out)
direct_mappings ==
  [ kw \in { "integrated oil mist control", "high vibration",
             "extended service", "mobile applications", "rh 25 to 75",
             "rh >75%", "water contact conditions high",
             "water contact conditions medium",
             "water contact conditions low", "sump volume max gal",
             "circulating/hyd sump volume max gal." } |->
      CASE kw = "integrated oil mist control" -> << ColMist >>
        [] kw = "high vibration" -> << ColVib >>
        [] kw = "extended service" -> << ColES >>
        [] kw = "mobile applications" -> << ColMobile >>
        [] kw = "rh 25 to 75" -> << ColRhMid >>
        [] kw = "rh >75%" -> << ColRhHigh >>
        [] kw = "water contact conditions high" -> << ColWcHigh >>
        [] kw = "water contact conditions medium" -> << ColWcMed >>
        [] kw = "water contact conditions low" -> << ColWcLow >>
        [] kw = "sump volume max gal" -> << ColSumpSplash >>
        [] kw = "circulating/hyd sump volume max gal." -> << ColSumpCirc >> ]

\* RuleEngine.__init__: self.catalog_columns = {}
EmptyMemo == [ kw \in Keywords |-> Unset ]

\* _find_column with the memo keyed by the words the keywords share: the
\* column cached for one water-contact class or humidity band answers for all
_find_column_coarse_key(memo, df_columns, keyword) ==
  LET key == IF keyword \in { "water contact conditions low",
                              "water contact conditions medium",
                              "water contact conditions high" }
             THEN "water contact conditions low"
             ELSE IF keyword \in { "rh 25 to 75%", "rh >75%" }
             THEN "rh 25 to 75%"
             ELSE keyword
      direct ==
        IF keyword \in DOMAIN direct_mappings
        THEN SelectSeq(direct_mappings[keyword], LAMBDA c : c \in df_columns)
        ELSE << >>
      matching == { c \in df_columns \cap ColumnSet :
                      SubstringOf(keyword, col_clean(c)) }
      first == CHOOSE c \in matching :
                 \A d \in matching : ColumnPos(c) <= ColumnPos(d)
      found == IF direct # << >> THEN Head(direct)
               ELSE IF matching # {} THEN first
               ELSE None
  IN  IF keyword = None THEN [ col |-> None, memo |-> memo ]
      ELSE IF memo[key] # Unset /\ memo[key] \in df_columns
      THEN [ col |-> memo[key], memo |-> memo ]
      ELSE [ col |-> found, memo |-> [ memo EXCEPT ![key] = found ] ]

\* RuleEngine._find_column(df_columns, keyword) on the memo self.catalog_columns;
\* returns the column (or None) and the memo as the call leaves it
_find_column(memo, df_columns, keyword) ==
  IF keyword = None THEN [ col |-> None, memo |-> memo ]
  ELSE IF memo[keyword] # Unset /\ memo[keyword] \in df_columns
  THEN [ col |-> memo[keyword], memo |-> memo ]
  ELSE
    LET direct ==
          IF keyword \in DOMAIN direct_mappings
          THEN SelectSeq(direct_mappings[keyword], LAMBDA c : c \in df_columns)
          ELSE << >>
        matching == { c \in df_columns \cap ColumnSet :
                        SubstringOf(keyword, col_clean(c)) }
        first == CHOOSE c \in matching :
                   \A d \in matching : ColumnPos(c) <= ColumnPos(d)
        found == IF direct # << >> THEN Head(direct)
                 ELSE IF matching # {} THEN first
                 ELSE None
    IN  [ col |-> found, memo |-> [ memo EXCEPT ![keyword] = found ] ]

-----------------------------------------------------------------------------
(* Breather catalog rows.  A row is a function from column names to cells;  *)
(* boolean cells are the values ExcelHandler._convert_to_boolean leaves.    *)

Breather(brand, model, type, cfm, gpm, height, diameter, ads, flags, sumpSplash, sumpCirc) ==
  [ c \in ColumnSet |->
      CASE c = ColBrand -> brand
        [] c = ColModel -> model
        [] c = ColType -> type
        [] c = ColCfm -> cfm
        [] c = ColGpm -> gpm
        [] c = ColHeight -> height
        [] c = ColDiameter -> diameter
        [] c = ColAds -> ads
        [] c = ColSumpSplash -> sumpSplash
        [] c = ColSumpCirc -> sumpCirc
        [] OTHER -> c \in flags ]

\* the rows a catalog of the model is drawn from
Pool ==
  << Breather("Acme", "X", "Disposable", 2000, 20000, 3000, 2000, 100,
              { ColRhMid, ColWcLow }, 20000, 50000),
     Breather("Acme", "Y", "Rebuildable", 3000, 30000, 5000, 3000, 300,
              { ColES, ColMist, ColVib, ColRhMid, ColRhHigh, ColWcLow,
                ColWcMed, ColWcHigh }, 50000, 100000),
     Breather("Borea", "Z", "Disposable", 3000, 8000, 3000, 3000, 200,
              { ColMobile, ColRhMid, ColWcLow, ColWcMed }, 5000, NaN),
     Breather("Borea", "W", "Rebuildable", 10000, 60000, 7000, 5000, 300,
              { ColMobile, ColES, ColVib, ColRhHigh, ColWcHigh },
              100000, 200000),
     Breather("Borea", "V", "Hybrid", 4000, NaN, NaN, 3000, NaN,
              { ColMist, ColRhMid, ColWcLow }, 30000, 30000),
     Breather("Acme", "U", "Rebuildable", 2500, 25000, 3000, 2000, 150,
              { ColRhMid, ColWcLow }, 25000, 60000) >>

PoolIds == DOMAIN Pool

\* pd.DataFrame()
EmptyFrame == [ cols |-> {}, rows |-> << >> ]

\* df.empty
IsEmpty(df) == df.rows = << >>

\* df[mask]: the rows whose label satisfies Keep, in frame order
Filtered(df, Keep) ==
  [ df EXCEPT !.rows = SelectSeq(df.rows, LAMBDA i : i \in Keep) ]

RowSet(df) == { df.rows[k] : k \in DOMAIN df.rows }

\* numeric comparison of a cell with a bound: false on NaN
CellGE(cell, bound) == cell # NaN /\ cell >= bound
CellLE(cell, bound) == cell # NaN /\ cell <= bound

-----------------------------------------------------------------------------
(* Lookup matrices of the rule engine                                       *)

\* RuleEngine.CI_MATRIX with the .get default 'Medium'
CI_MATRIX(likelihood) ==
  CASE likelihood = "Low" -> "Low"
    [] likelihood = "Medium" -> "Medium"
    [] likelihood = "Severe" -> "High"
    [] likelihood = "Extreme" -> "High"
    [] OTHER -> "Medium"

\* RuleEngine.WCCI_MATRIX with the .get default {'factor': 'Low', 'desiccant': True}
WCCI_MATRIX(text) ==
  CASE text = "No Water Contact, Very Dry Conditions" ->
         [ factor |-> "Very Low", desiccant |-> FALSE ]
    [] text = "No Water Contact, Typical Humidity" ->
         [ factor |-> "Low", desiccant |-> TRUE ]
    [] text \in { "Typical Humidity, but Occasional Rain", "Nearby Steam/Spray",
                  "Other Mild Water Contact", "Other Moderate Water Contact",
                  "Occasional Washdowns" } ->
         [ factor |-> "Medium", desiccant |-> TRUE ]
    [] text \in { "Severe Water Contact", "Submerged in Water" } ->
         [ factor |-> "High", desiccant |-> TRUE ]
    [] OTHER -> [ factor |-> "Low", desiccant |-> TRUE ]

\* RuleEngine.ESI_MATRIX with the .get default 'basic'
ESI_MATRIX(ci, wcci) ==
  IF \/ ci = "Low" /\ wcci = "High"
     \/ ci = "Medium" /\ wcci \in { "Medium", "High" }
     \/ ci = "High" /\ wcci \in { "Very Low", "Low", "Medium", "High" }
  THEN "Extended service"
  ELSE "basic"

\* config.get(key, default): a dict is a function on the keys it holds
Get(config, key, default) ==
  IF key \in DOMAIN config THEN config[key] ELSE default

\* RuleEngine._extract_operational_factors
_extract_operational_factors(row, config) ==
  LET ci == CI_MATRIX(row.contaminant)
      wcci_info == WCCI_MATRIX(row.water)
      manual == Get(config, "esi_manual", None)
      avg == row.humidity
  IN  [ ci |-> ci,
        wcci |-> wcci_info.factor,
        esi |-> IF manual \notin { None, "" } THEN manual
                ELSE ESI_MATRIX(ci, wcci_info.factor),
        desiccant_required |-> wcci_info.desiccant,
        humidity_level |-> IF CellGE(avg, 75) THEN "High" ELSE "Normal",
        avg_humidity |-> IF avg # NaN THEN avg ELSE 50,
        oil_mist_evidence |->
          row.oil_mist \in { "true", "yes", "y", "x", "1", "1.0", "si" },
        vibration |-> row.vibration,
        mobile_application |-> Get(config, "mobile_application", FALSE),
        particle_filter_required |->
          Get(config, "high_particle_removal", FALSE) \/ ci = "High" ]

\* RuleEngine.apply_rule_1
apply_rule_1(row, config) ==
  LET criticality == Get(config, "criticality", "A")
  IN  [ breather_required |-> criticality \in { "A", "B1", "B2" },
        criticality |-> criticality ]

\* apply_rule_3 with > for >=: a breather rated exactly at the requirement
\* is rejected
apply_rule_3_strict(breather_catalog, cfm_required) ==
  IF ColCfm \notin breather_catalog.cols THEN EmptyFrame
  ELSE Filtered(breather_catalog,
                { i \in PoolIds : Pool[i][ColCfm] # NaN /\ Pool[i][ColCfm] > cfm_required })

\* apply_rule_3 without the comparison: the whole catalog passes the gate
apply_rule_3_ungated(breather_catalog, cfm_required) ==
  IF ColCfm \notin breather_catalog.cols THEN EmptyFrame ELSE breather_catalog

\* RuleEngine.apply_rule_3
apply_rule_3(breather_catalog, cfm_required) ==
  IF ColCfm \notin breather_catalog.cols THEN EmptyFrame
  ELSE Filtered(breather_catalog,
                { i \in PoolIds : CellGE(Pool[i][ColCfm], cfm_required) })

-----------------------------------------------------------------------------
(* Operational filters (Rule 4).  Each takes the memo and the frame and     *)
(* returns [breathers, trace, memo]; a trace line is [rule, text, n].       *)

Line(rule, text, n) == [ rule |-> rule, text |-> text, n |-> n ]

\* the filters without the fallback: the subset is returned even when empty
WithFallback_strict(breathers, Keep, rule, found, fallback, memo) ==
  [ breathers |-> Filtered(breathers, Keep),
    trace |-> Line(rule, found, Len(Filtered(breathers, Keep).rows)),
    memo |-> memo ]

\* the shape shared by the filters with inclusive fallback:
\* `subset if not subset.empty else breathers`
WithFallback(breathers, Keep, rule, found, fallback, memo) ==
  LET subset == Filtered(breathers, Keep)
  IN  IF ~IsEmpty(subset)
      THEN [ breathers |-> subset,
             trace |-> Line(rule, found, Len(subset.rows)), memo |-> memo ]
      ELSE [ breathers |-> breathers,
             trace |-> Line(rule, fallback, 0), memo |-> memo ]

ColumnNotFound(breathers, rule, memo) ==
  [ breathers |-> breathers, trace |-> Line(rule, "column not found", 0),
    memo |-> memo ]

\* RuleEngine._parse_vibration_level
_parse_vibration_level(vibration_str) ==
  [ heavy_duty_required |-> vibration_str = ">0.4 ips" ]

\* RuleEngine._apply_vibration_filter
_apply_vibration_filter(memo, breathers, vibration_str) ==
  LET vib_info == _parse_vibration_level(vibration_str)
      f == _find_column(memo, breathers.cols, "high vibration")
  IN  IF f.col = None THEN ColumnNotFound(breathers, "4.8", f.memo)
      ELSE IF ~vib_info.heavy_duty_required
      THEN WithFallback(breathers, { i \in PoolIds : Pool[i][f.col] # TRUE }, "4.8",
                        "non-HD selected", "only HD available (fallback)", f.memo)
      ELSE WithFallback(breathers, { i \in PoolIds : Pool[i][f.col] = TRUE }, "4.8",
                        "HD found", "no HD found (fallback)", f.memo)

\* RuleEngine._apply_wcci_filter
_apply_wcci_filter(memo, breathers, wcci_factor) ==
  LET col_map ==
        CASE wcci_factor \in { "Very Low", "Low" } -> "water contact conditions low"
          [] wcci_factor = "Medium" -> "water contact conditions medium"
          [] wcci_factor = "High" -> "water contact conditions high"
          [] OTHER -> None
      f == _find_column(memo, breathers.cols, col_map)
  IN  IF f.col = None THEN ColumnNotFound(breathers, "4.1", f.memo)
      ELSE WithFallback(breathers, { i \in PoolIds : Pool[i][f.col] = TRUE }, "4.1",
                        "resistant found", "none found (fallback)", f.memo)

\* RuleEngine._apply_desiccant_filter
_apply_desiccant_filter(memo, breathers, desiccant_required) ==
  [ breathers |-> breathers,
    trace |-> Line("4.2", IF desiccant_required THEN "Desiccant required=True"
                          ELSE "Desiccant required=False", 0),
    memo |-> memo ]

\* RuleEngine._apply_humidity_filter
_apply_humidity_filter(memo, breathers, humidity_level) ==
  LET target_col_name == IF humidity_level = "High" THEN "rh >75%"
                         ELSE "rh 25 to 75%"
      f == _find_column(memo, breathers.cols, target_col_name)
  IN  IF f.col = None THEN ColumnNotFound(breathers, "4.3", f.memo)
      ELSE WithFallback(breathers, { i \in PoolIds : Pool[i][f.col] = TRUE }, "4.3",
                        "models selected",
                        "none found for this range (fallback)", f.memo)

\* RuleEngine._apply_contamination_filter
_apply_contamination_filter(memo, breathers, ci, particle_req) ==
  IF ci = "Low" /\ ~particle_req
  THEN [ breathers |-> breathers, trace |-> Line("4.4/4.5", "no filter", 0),
         memo |-> memo ]
  ELSE
    LET f == _find_column(memo, breathers.cols, "extended service")
    IN  IF f.col = None THEN ColumnNotFound(breathers, "4.4/4.5", f.memo)
        ELSE WithFallback(breathers, { i \in PoolIds : Pool[i][f.col] = TRUE },
                          "4.4/4.5", "E.S. found", "no E.S. found (fallback)",
                          f.memo)

\* RuleEngine._apply_extended_service_filter
_apply_extended_service_filter(memo, breathers, esi) ==
  LET f == _find_column(memo, breathers.cols, "extended service")
  IN  IF f.col = None THEN ColumnNotFound(breathers, "4.6", f.memo)
      ELSE IF esi # "Extended service"
      THEN WithFallback(breathers, { i \in PoolIds : Pool[i][f.col] # TRUE }, "4.6",
                        "basic selected", "only E.S. available (fallback)", f.memo)
      ELSE WithFallback(breathers, { i \in PoolIds : Pool[i][f.col] = TRUE }, "4.6",
                        "E.S. found", "none available (fallback)", f.memo)

\* RuleEngine._apply_oil_mist_filter
_apply_oil_mist_filter(memo, breathers, oil_mist) ==
  LET f == _find_column(memo, breathers.cols, "integrated oil mist control")
  IN  IF f.col = None THEN ColumnNotFound(breathers, "4.7", f.memo)
      ELSE IF ~oil_mist
      THEN WithFallback(breathers, { i \in PoolIds : Pool[i][f.col] # TRUE }, "4.7",
                        "not required, selected",
                        "not required, but only capable models found (fallback)",
                        f.memo)
      ELSE WithFallback(breathers, { i \in PoolIds : Pool[i][f.col] = TRUE }, "4.7",
                        "required, found", "required, but none found (fallback)",
                        f.memo)

\* RuleEngine._apply_mobile_filter
_apply_mobile_filter(memo, breathers, mobile) ==
  LET f == _find_column(memo, breathers.cols, "mobile applications")
  IN  IF f.col = None THEN ColumnNotFound(breathers, "4.9", f.memo)
      ELSE IF ~mobile
      THEN WithFallback(breathers, { i \in PoolIds : Pool[i][f.col] # TRUE }, "4.9",
                        "not required, selected",
                        "not required, but only mobile available (fallback)",
                        f.memo)
      ELSE
        LET mobile_suitable == Filtered(breathers, { i \in PoolIds : Pool[i][f.col] = TRUE })
        IN  [ breathers |-> mobile_suitable,
              trace |-> IF ~IsEmpty(mobile_suitable)
                        THEN Line("4.9", "required, mobile breathers found",
                                  Len(mobile_suitable.rows))
                        ELSE Line("4.9", "required, NO mobile breathers found", 0),
              memo |-> f.memo ]

\* apply_rule_4: the keys of filter_map in insertion order
filter_map == << "wcci", "desiccant", "esi", "humidity", "contamination",
                 "oil_mist", "vibration" >>

\* the sump volume, in milli-gallons, under which the oil-mist filter is skipped
OilMistSumpLimit == 15000

\* apply_rule_4: filter_map[filter_name] applied, func(filtered, *args)
ApplyFilter(filter_name, memo, filtered, factors) ==
  CASE filter_name = "wcci" -> _apply_wcci_filter(memo, filtered, factors.wcci)
    [] filter_name = "desiccant" ->
         _apply_desiccant_filter(memo, filtered, factors.desiccant_required)
    [] filter_name = "esi" ->
         _apply_extended_service_filter(memo, filtered, factors.esi)
    [] filter_name = "humidity" ->
         _apply_humidity_filter(memo, filtered, factors.humidity_level)
    [] filter_name = "contamination" ->
         _apply_contamination_filter(memo, filtered, factors.ci,
                                     factors.particle_filter_required)
    [] filter_name = "oil_mist" ->
         _apply_oil_mist_filter(memo, filtered, factors.oil_mist_evidence)
    [] filter_name = "vibration" ->
         _apply_vibration_filter(memo, filtered, factors.vibration)

\* apply_rule_4: the loop over filter_map.items(), from position k
RECURSIVE FilterLoop(_, _, _, _, _, _, _)
FilterLoop(names, k, memo, filtered, trace, factors, exclude_filters) ==
  IF k > Len(names)
  THEN [ filtered_breathers |-> filtered, trace |-> trace, memo |-> memo ]
  ELSE IF names[k] \in exclude_filters
  THEN FilterLoop(names, k + 1, memo, filtered,
                  Append(trace, Line("4.x", names[k], 0)),
                  factors, exclude_filters)
  ELSE Let([result \in { ApplyFilter(names[k], memo, filtered, factors) } |->
        IF IsEmpty(result.breathers)
        THEN [ filtered_breathers |-> result.breathers,
               trace |-> Append(trace, result.trace), memo |-> result.memo ]
        ELSE FilterLoop(names, k + 1, result.memo, result.breathers,
                        Append(trace, result.trace), factors, exclude_filters)])

\* RuleEngine.apply_rule_4(candidate_breathers, row, config, volumes, exclude_filters)
apply_rule_4(memo, candidate_breathers, row, config, volumes, exclude_filters) ==
  LET factors == _extract_operational_factors(row, config)
      runMobile == factors.mobile_application = TRUE /\ "mobile" \notin exclude_filters
      mobile_result == _apply_mobile_filter(memo, candidate_breathers,
                                            factors.mobile_application)
      filtered1 == IF runMobile THEN mobile_result.breathers ELSE candidate_breathers
      trace1 == IF runMobile THEN << mobile_result.trace >> ELSE << >>
      memo1 == IF runMobile THEN mobile_result.memo ELSE memo
      skipMist == volumes.v_sump < OilMistSumpLimit
      names == IF skipMist
               THEN SelectSeq(filter_map, LAMBDA n : n # "oil_mist")
               ELSE filter_map
      trace2 == IF skipMist
                THEN Append(trace1, Line("4.7", "Skipped due to Sump Volume < 15 gal", 0))
                ELSE trace1
  IN  FilterLoop(names, 1, memo1, filtered1, trace2, factors, exclude_filters)

-----------------------------------------------------------------------------
(* Exceptions: [kind, arg]; NoExc when the call returned normally           *)

NoExc == [ kind |-> "", arg |-> "" ]
KeyError(col) == [ kind |-> "KeyError", arg |-> col ]
TypeError(what) == [ kind |-> "TypeError", arg |-> what ]

\* apply_rule_5 reading the splash column for either system type
apply_rule_5_splash_column(memo, candidate_breathers, volumes, system_type) ==
  LET sump_col_name == "sump volume max gal"
      asset_volume == volumes.v_oil
      f == _find_column(memo, candidate_breathers.cols, sump_col_name)
      suitable == Filtered(candidate_breathers,
                           { i \in PoolIds : CellGE(Pool[i][f.col], asset_volume) })
  IN  IF asset_volume <= 0
      THEN [ filtered_breathers |-> candidate_breathers,
             trace |-> Line("5", "Skipped (Asset volume is 0)", 0), memo |-> memo ]
      ELSE IF f.col = None
      THEN [ filtered_breathers |-> candidate_breathers,
             trace |-> Line("5", "Skipped (Column not found)", 0), memo |-> f.memo ]
      ELSE IF ~IsEmpty(suitable)
      THEN [ filtered_breathers |-> suitable,
             trace |-> Line("5", "breathers meet volume", Len(suitable.rows)),
             memo |-> f.memo ]
      ELSE [ filtered_breathers |-> candidate_breathers,
             trace |-> Line("5", "No breathers meet volume (fallback)", 0),
             memo |-> f.memo ]

\* RuleEngine.apply_rule_5
apply_rule_5(memo, candidate_breathers, volumes, system_type) ==
  LET sump_col_name == IF system_type = "circulating"
                       THEN "circulating/hyd sump volume max gal."
                       ELSE "sump volume max gal"
      asset_volume == volumes.v_oil
      f == _find_column(memo, candidate_breathers.cols, sump_col_name)
      suitable == Filtered(candidate_breathers,
                           { i \in PoolIds : CellGE(Pool[i][f.col], asset_volume) })
  IN  IF asset_volume <= 0
      THEN [ filtered_breathers |-> candidate_breathers,
             trace |-> Line("5", "Skipped (Asset volume is 0)", 0), memo |-> memo ]
      ELSE IF f.col = None
      THEN [ filtered_breathers |-> candidate_breathers,
             trace |-> Line("5", "Skipped (Column not found)", 0), memo |-> f.memo ]
      ELSE IF ~IsEmpty(suitable)
      THEN [ filtered_breathers |-> suitable,
             trace |-> Line("5", "breathers meet volume", Len(suitable.rows)),
             memo |-> f.memo ]
      ELSE [ filtered_breathers |-> candidate_breathers,
             trace |-> Line("5", "No breathers meet volume (fallback)", 0),
             memo |-> f.memo ]

\* DataProcessor._parse_available_space: limits in milli-inches, None when absent
_parse_available_space(space_str) ==
  CASE space_str = "less than 2 inches" -> [ height_limit |-> 2000, diameter_limit |-> 2000 ]
    [] space_str = "2 to <4 inches" -> [ height_limit |-> 4000, diameter_limit |-> 4000 ]
    [] space_str = "4 to <6 inches" -> [ height_limit |-> 6000, diameter_limit |-> 6000 ]
    [] space_str = "no port available" -> [ height_limit |-> 0, diameter_limit |-> 0 ]
    [] OTHER -> [ height_limit |-> NaN, diameter_limit |-> NaN ]

\* in available_space a limit that is None is held as NaN
NoLimit(limit) == limit = NaN

\* RuleEngine.apply_rule_6
apply_rule_6(candidate_breathers, available_space) ==
  LET h_limit == available_space.height_limit
      d_limit == available_space.diameter_limit
      mask(i) == /\ NoLimit(h_limit) \/ CellLE(Pool[i][ColHeight], h_limit)
                 /\ NoLimit(d_limit) \/ CellLE(Pool[i][ColDiameter], d_limit)
      fitting == Filtered(candidate_breathers, { i \in PoolIds : mask(i) })
      non_fitting == Filtered(candidate_breathers, { i \in PoolIds : ~mask(i) })
  IN  IF NoLimit(h_limit) /\ NoLimit(d_limit)
      THEN [ exc |-> NoExc, fitting_breathers |-> candidate_breathers,
             non_fitting_breathers |-> EmptyFrame,
             trace |-> Line("6", "No space constraints provided", 0) ]
      ELSE IF ~NoLimit(h_limit) /\ ColHeight \notin candidate_breathers.cols
      THEN [ exc |-> KeyError(ColHeight), fitting_breathers |-> EmptyFrame,
             non_fitting_breathers |-> EmptyFrame, trace |-> Line("6", "", 0) ]
      ELSE IF ~NoLimit(d_limit) /\ ColDiameter \notin candidate_breathers.cols
      THEN [ exc |-> KeyError(ColDiameter), fitting_breathers |-> EmptyFrame,
             non_fitting_breathers |-> EmptyFrame, trace |-> Line("6", "", 0) ]
      ELSE [ exc |-> NoExc, fitting_breathers |-> fitting,
             non_fitting_breathers |-> non_fitting,
             trace |-> Line("6", "Space constraints", Len(fitting.rows)) ]

\* pd.concat([a, b]): a's rows, then b's; the columns of both
Concat(a, b) == [ cols |-> a.cols \cup b.cols, rows |-> a.rows \o b.rows ]

-----------------------------------------------------------------------------
(* Ranking                                                                  *)

\* .fillna(999) on the air flow, .fillna(0) on the adsorption capacity and
\* .fillna(99999) on the sump capacity, in thousandths
CfmFill == 999000
AdsFill == 0
SumpFill == 99999000

Fill(cell, fill) == IF cell = NaN THEN fill ELSE cell

CFM_Margin(i, context) == Fill(Pool[i][ColCfm], CfmFill) - context.cfm_required
Adsorption(i) == Fill(Pool[i][ColAds], AdsFill)
Sump_Margin(i, sump_col, context) == Fill(Pool[i][sump_col], SumpFill) - context.v_oil

\* lexicographic "sorts strictly before" on key tuples of equal length
RECURSIVE LexLess(_, _)
LexLess(a, b) ==
  IF a = << >> THEN FALSE
  ELSE IF Head(a) # Head(b) THEN Head(a) < Head(b)
  ELSE LexLess(Tail(a), Tail(b))

\* df.sort_values(by, ascending).iloc[0]: the row with the least key, the
\* earliest in frame order among equals (the multi-key sort is stable)
FirstSorted(df, Key) ==
  LET k == CHOOSE k \in DOMAIN df.rows :
             /\ \A j \in DOMAIN df.rows : ~LexLess(Key[df.rows[j]], Key[df.rows[k]])
             /\ \A j \in 1..(k - 1) : LexLess(Key[df.rows[k]], Key[df.rows[j]])
  IN  df.rows[k]

\* _rank_and_select_best_breather with the splash order for either system type
_rank_and_select_best_breather_cfm_first(memo, candidates, context) ==
  IF IsEmpty(candidates) THEN [ exc |-> NoExc, choice |-> NoRow, memo |-> memo ]
  ELSE IF ColCfm \notin candidates.cols
  THEN [ exc |-> KeyError(ColCfm), choice |-> NoRow, memo |-> memo ]
  ELSE IF ColAds \notin candidates.cols
  THEN [ exc |-> KeyError(ColAds), choice |-> NoRow, memo |-> memo ]
  ELSE
    LET sump_col_name == IF context.system_type = "circulating"
                         THEN "circulating/hyd sump volume max gal."
                         ELSE "sump volume max gal"
        f == _find_column(memo, candidates.cols, sump_col_name)
        KeyCirc(i) == << Sump_Margin(i, f.col, context), CFM_Margin(i, context),
                         -Adsorption(i) >>
        KeySplash(i) == << CFM_Margin(i, context), Sump_Margin(i, f.col, context),
                           -Adsorption(i) >>
        KeyCfm(i) == << CFM_Margin(i, context), -Adsorption(i) >>
        best == IF f.col # None /\ context.v_oil > 0
                THEN FirstSorted(candidates, [ i \in PoolIds |-> KeySplash(i) ])
                ELSE FirstSorted(candidates, [ i \in PoolIds |-> KeyCfm(i) ])
    IN  [ exc |-> NoExc, choice |-> best, memo |-> f.memo ]

\* RuleEngine._rank_and_select_best_breather: [exc, choice, memo], choice the
\* row label or None
_rank_and_select_best_breather(memo, candidates, context) ==
  IF IsEmpty(candidates) THEN [ exc |-> NoExc, choice |-> NoRow, memo |-> memo ]
  ELSE IF ColCfm \notin candidates.cols
  THEN [ exc |-> KeyError(ColCfm), choice |-> NoRow, memo |-> memo ]
  ELSE IF ColAds \notin candidates.cols
  THEN [ exc |-> KeyError(ColAds), choice |-> NoRow, memo |-> memo ]
  ELSE
    LET sump_col_name == IF context.system_type = "circulating"
                         THEN "circulating/hyd sump volume max gal."
                         ELSE "sump volume max gal"
        f == _find_column(memo, candidates.cols, sump_col_name)
        KeyCirc(i) == << Sump_Margin(i, f.col, context), CFM_Margin(i, context),
                         -Adsorption(i) >>
        KeySplash(i) == << CFM_Margin(i, context), Sump_Margin(i, f.col, context),
                           -Adsorption(i) >>
        KeyCfm(i) == << CFM_Margin(i, context), -Adsorption(i) >>
        best == IF f.col # None /\ context.v_oil > 0
                THEN IF context.system_type = "circulating"
                     THEN FirstSorted(candidates, [ i \in PoolIds |-> KeyCirc(i) ])
                     ELSE FirstSorted(candidates, [ i \in PoolIds |-> KeySplash(i) ])
                ELSE FirstSorted(candidates, [ i \in PoolIds |-> KeyCfm(i) ])
    IN  [ exc |-> NoExc, choice |-> best, memo |-> f.memo ]

\* df['Type'].str.contains(word, na=False, case=False) on the types of Pool
TypeContains(i, word) == Pool[i][ColType] = word

\* select_lcc_breather preferring disposables to rebuildables
select_lcc_breather_disposable_first(all_candidates, context) ==
  IF IsEmpty(all_candidates) THEN [ exc |-> NoExc, choice |-> NoRow ]
  ELSE IF ColCfm \notin all_candidates.cols
  THEN [ exc |-> KeyError(ColCfm), choice |-> NoRow ]
  ELSE IF ColAds \notin all_candidates.cols
  THEN [ exc |-> KeyError(ColAds), choice |-> NoRow ]
  ELSE IF ColType \notin all_candidates.cols
  THEN [ exc |-> KeyError(ColType), choice |-> NoRow ]
  ELSE
    LET Key(i) == << CFM_Margin(i, context), -Adsorption(i) >>
        rebuildables == Filtered(all_candidates,
                                 { i \in PoolIds : TypeContains(i, "Rebuildable") })
        disposables == Filtered(all_candidates,
                                { i \in PoolIds : TypeContains(i, "Disposable") })
    IN  [ exc |-> NoExc,
          choice |-> IF ~IsEmpty(disposables)
                     THEN FirstSorted(disposables, [ i \in PoolIds |-> Key(i) ])
                     ELSE IF ~IsEmpty(rebuildables)
                     THEN FirstSorted(rebuildables, [ i \in PoolIds |-> Key(i) ])
                     ELSE FirstSorted(all_candidates, [ i \in PoolIds |-> Key(i) ]) ]

\* RuleEngine.select_lcc_breather: [exc, choice]
select_lcc_breather(all_candidates, context) ==
  IF IsEmpty(all_candidates) THEN [ exc |-> NoExc, choice |-> NoRow ]
  ELSE IF ColCfm \notin all_candidates.cols
  THEN [ exc |-> KeyError(ColCfm), choice |-> NoRow ]
  ELSE IF ColAds \notin all_candidates.cols
  THEN [ exc |-> KeyError(ColAds), choice |-> NoRow ]
  ELSE IF ColType \notin all_candidates.cols
  THEN [ exc |-> KeyError(ColType), choice |-> NoRow ]
  ELSE
    LET Key(i) == << CFM_Margin(i, context), -Adsorption(i) >>
        rebuildables == Filtered(all_candidates,
                                 { i \in PoolIds : TypeContains(i, "Rebuildable") })
        disposables == Filtered(all_candidates,
                                { i \in PoolIds : TypeContains(i, "Disposable") })
    IN  [ exc |-> NoExc,
          choice |-> IF ~IsEmpty(rebuildables)
                     THEN FirstSorted(rebuildables, [ i \in PoolIds |-> Key(i) ])
                     ELSE IF ~IsEmpty(disposables)
                     THEN FirstSorted(disposables, [ i \in PoolIds |-> Key(i) ])
                     ELSE FirstSorted(all_candidates, [ i \in PoolIds |-> Key(i) ]) ]

\* RuleEngine.select_cost_benefit_breather: [exc, choice, memo]
select_cost_benefit_breather(memo, all_candidates, context) ==
  IF IsEmpty(all_candidates) THEN [ exc |-> NoExc, choice |-> NoRow, memo |-> memo ]
  ELSE IF ColType \notin all_candidates.cols
  THEN [ exc |-> KeyError(ColType), choice |-> NoRow, memo |-> memo ]
  ELSE
    LET disposables == Filtered(all_candidates,
                                { i \in PoolIds : TypeContains(i, "Disposable") })
        sump_col_name == IF context.system_type = "circulating"
                         THEN "circulating/hyd sump volume max gal."
                         ELSE "sump volume max gal"
        f == _find_column(memo, disposables.cols, sump_col_name)
        KeySump(i) == << Sump_Margin(i, f.col, context), CFM_Margin(i, context),
                         Adsorption(i) >>
        KeyCfm(i) == << CFM_Margin(i, context), Adsorption(i) >>
    IN  IF IsEmpty(disposables)
        THEN [ exc |-> NoExc, choice |-> NoRow, memo |-> memo ]
        ELSE IF ColCfm \notin disposables.cols
        THEN [ exc |-> KeyError(ColCfm), choice |-> NoRow, memo |-> memo ]
        ELSE IF ColAds \notin disposables.cols
        THEN [ exc |-> KeyError(ColAds), choice |-> NoRow, memo |-> memo ]
        ELSE [ exc |-> NoExc,
               choice |-> IF f.col # None /\ context.v_oil > 0
                          THEN FirstSorted(disposables, [ i \in PoolIds |-> KeySump(i) ])
                          ELSE FirstSorted(disposables, [ i \in PoolIds |-> KeyCfm(i) ]),
               memo |-> f.memo ]

-----------------------------------------------------------------------------
(* Rule 7: final recommendation.  A note of the installation notes is a     *)
(* Line whose n is the row label it is about (0 when about none).           *)

\* RuleEngine._no_solution_result
_no_solution_result ==
  [ exc |-> NoExc, selected_breather |-> << >>, status |-> "No Solution Found",
    installation_notes |->
      << Line("note", "No suitable breathers found after all filters.", 0) >>,
    trace |-> Line("7", "No viable solution available", 0) ]

\* a recommendation call that raised
Raised(exc) ==
  [ exc |-> exc, selected_breather |-> << >>, status |-> Unset,
    installation_notes |-> << >>, trace |-> Line("7", "", 0) ]

\* _get_critical_a_recommendation making a single pick: the disposable only
\* when there is no rebuildable
_get_critical_a_recommendation_single(memo, fitting_breathers, non_fitting_breathers, config, context) ==
  LET all_candidates ==
        IF ~IsEmpty(fitting_breathers) \/ ~IsEmpty(non_fitting_breathers)
        THEN Concat(fitting_breathers, non_fitting_breathers)
        ELSE EmptyFrame
      rebuildables == Filtered(all_candidates, { i \in PoolIds : TypeContains(i, "Rebuildable") })
      disposables == Filtered(all_candidates, { i \in PoolIds : TypeContains(i, "Disposable") })
      fit_status(choice) ==
        IF ~IsEmpty(fitting_breathers)
           /\ \E i \in RowSet(fitting_breathers) : Pool[i][ColModel] = Pool[choice][ColModel]
        THEN "Fits directly."
        ELSE "Requires remote installation or space check."
  IN  IF IsEmpty(all_candidates) THEN _no_solution_result @@ [ memo |-> memo ]
      ELSE IF ColType \notin all_candidates.cols
      THEN Raised(KeyError(ColType)) @@ [ memo |-> memo ]
      ELSE
      Let([optimal \in { _rank_and_select_best_breather(memo, rebuildables, context) } |->
      IF optimal.exc # NoExc THEN Raised(optimal.exc) @@ [ memo |-> optimal.memo ]
      ELSE
      Let([cost_effective \in { _rank_and_select_best_breather(optimal.memo, disposables, context) } |->
      LET rec1 == IF optimal.choice # NoRow THEN << optimal.choice >> ELSE << >>
          notes1 == IF optimal.choice # NoRow
                    THEN << Line("Optimal (Rebuildable)", fit_status(optimal.choice),
                                 optimal.choice) >>
                    ELSE << >>
          addSecond == /\ cost_effective.choice # NoRow
                       /\ rec1 = << >>
                       /\ \A k \in DOMAIN rec1 :
                            Pool[rec1[k]][ColModel] # Pool[cost_effective.choice][ColModel]
          recommendations == IF addSecond THEN Append(rec1, cost_effective.choice)
                             ELSE rec1
          notes == IF addSecond
                   THEN Append(notes1, Line("Cost-Effective (Disposable)",
                                            fit_status(cost_effective.choice),
                                            cost_effective.choice))
                   ELSE notes1
      IN  IF cost_effective.exc # NoExc
          THEN Raised(cost_effective.exc) @@ [ memo |-> cost_effective.memo ]
          ELSE IF recommendations = << >>
          THEN _no_solution_result @@ [ memo |-> cost_effective.memo ]
          ELSE [ exc |-> NoExc, selected_breather |-> recommendations,
                 status |-> Unset, installation_notes |-> notes,
                 trace |-> Line("7.A", "Criticality A logic applied", 0),
                 memo |-> cost_effective.memo ]])])

\* RuleEngine._get_critical_a_recommendation: [exc, selected_breather, status,
\* installation_notes, trace, memo]; status Unset: the dict has no 'status' key
_get_critical_a_recommendation(memo, fitting_breathers, non_fitting_breathers, config, context) ==
  LET all_candidates ==
        IF ~IsEmpty(fitting_breathers) \/ ~IsEmpty(non_fitting_breathers)
        THEN Concat(fitting_breathers, non_fitting_breathers)
        ELSE EmptyFrame
      rebuildables == Filtered(all_candidates, { i \in PoolIds : TypeContains(i, "Rebuildable") })
      disposables == Filtered(all_candidates, { i \in PoolIds : TypeContains(i, "Disposable") })
      fit_status(choice) ==
        IF ~IsEmpty(fitting_breathers)
           /\ \E i \in RowSet(fitting_breathers) : Pool[i][ColModel] = Pool[choice][ColModel]
        THEN "Fits directly."
        ELSE "Requires remote installation or space check."
  IN  IF IsEmpty(all_candidates) THEN _no_solution_result @@ [ memo |-> memo ]
      ELSE IF ColType \notin all_candidates.cols
      THEN Raised(KeyError(ColType)) @@ [ memo |-> memo ]
      ELSE
      Let([optimal \in { _rank_and_select_best_breather(memo, rebuildables, context) } |->
      IF optimal.exc # NoExc THEN Raised(optimal.exc) @@ [ memo |-> optimal.memo ]
      ELSE
      Let([cost_effective \in { _rank_and_select_best_breather(optimal.memo, disposables, context) } |->
      LET rec1 == IF optimal.choice # NoRow THEN << optimal.choice >> ELSE << >>
          notes1 == IF optimal.choice # NoRow
                    THEN << Line("Optimal (Rebuildable)", fit_status(optimal.choice),
                                 optimal.choice) >>
                    ELSE << >>
          addSecond == /\ cost_effective.choice # NoRow
                       /\ \A k \in DOMAIN rec1 :
                            Pool[rec1[k]][ColModel] # Pool[cost_effective.choice][ColModel]
          recommendations == IF addSecond THEN Append(rec1, cost_effective.choice)
                             ELSE rec1
          notes == IF addSecond
                   THEN Append(notes1, Line("Cost-Effective (Disposable)",
                                            fit_status(cost_effective.choice),
                                            cost_effective.choice))
                   ELSE notes1
      IN  IF cost_effective.exc # NoExc
          THEN Raised(cost_effective.exc) @@ [ memo |-> cost_effective.memo ]
          ELSE IF recommendations = << >>
          THEN _no_solution_result @@ [ memo |-> cost_effective.memo ]
          ELSE [ exc |-> NoExc, selected_breather |-> recommendations,
                 status |-> Unset, installation_notes |-> notes,
                 trace |-> Line("7.A", "Criticality A logic applied", 0),
                 memo |-> cost_effective.memo ]])])

\* RuleEngine._get_standard_recommendation
_get_standard_recommendation(memo, fitting_breathers, non_fitting_breathers, space_data_provided, config, context) ==
  LET all_candidates ==
        IF ~IsEmpty(fitting_breathers) \/ ~IsEmpty(non_fitting_breathers)
        THEN Concat(fitting_breathers, non_fitting_breathers)
        ELSE EmptyFrame
      Pick(df, status, note, trace) ==
        Let([selected \in { _rank_and_select_best_breather(memo, df, context) } |->
            IF selected.exc # NoExc
            THEN Raised(selected.exc) @@ [ memo |-> selected.memo ]
            ELSE [ exc |-> NoExc, selected_breather |-> << selected.choice >>,
                   status |-> status,
                   installation_notes |-> << Line("note", note, selected.choice) >>,
                   trace |-> trace, memo |-> selected.memo ]])
  IN  IF space_data_provided /\ ~IsEmpty(fitting_breathers)
      THEN Pick(fitting_breathers, "Optimal", "Direct installation.",
                Line("7.1", "Optimal solution (fits space)", 0))
      ELSE IF space_data_provided /\ ~IsEmpty(non_fitting_breathers)
      THEN Pick(non_fitting_breathers, "Sub-optimal",
                "Exceeds available space. Remote installation may be required.",
                Line("7.3", "Sub-optimal solution (space constraints)", 0))
      ELSE IF ~space_data_provided /\ ~IsEmpty(all_candidates)
      THEN Pick(all_candidates, "Optimal",
                "Manual space verification required for the optimal choice",
                Line("7", "No space data - manual verification needed", 0))
      ELSE _no_solution_result @@ [ memo |-> memo ]

\* apply_rule_7 with a primary status that ignores the sub-optimal note
apply_rule_7_unmarked(memo, fitting_breathers, non_fitting_breathers, available_space, space_data_provided, config, suboptimal_note, cfm_required, desiccant_required, v_oil, system_type) ==
  LET context == [ cfm_required |-> cfm_required,
                   desiccant_required |-> desiccant_required,
                   v_oil |-> v_oil, system_type |-> system_type ]
      primary_status ==
        IF ~IsEmpty(non_fitting_breathers)
        THEN IF ~IsEmpty(fitting_breathers) THEN "Optimal"
             ELSE IF available_space.height_limit = 0
             THEN "Optimal - Remote Installation"
             ELSE "Sub-optimal"
        ELSE ""
  IN  Let([result \in { IF Get(config, "criticality", None) = "A"
          THEN _get_critical_a_recommendation(memo, fitting_breathers,
                                              non_fitting_breathers, config, context)
          ELSE _get_standard_recommendation(memo, fitting_breathers,
                                            non_fitting_breathers,
                                            space_data_provided, config, context) } |->
      [ exc |-> result.exc, selected_breather |-> result.selected_breather,
        status |-> IF primary_status # "" THEN primary_status
                   ELSE IF result.status # Unset THEN result.status
                   ELSE "No Solution Found",
        installation_notes |->
          IF suboptimal_note # 0
          THEN << Line("note", "Sub-optimal: Requirements were relaxed.",
                       suboptimal_note) >> \o result.installation_notes
          ELSE result.installation_notes,
        trace |-> result.trace, memo |-> result.memo ]])

\* RuleEngine.apply_rule_7; suboptimal_note is 0 for the empty string and
\* otherwise the number of the relaxation attempt the note names
apply_rule_7(memo, fitting_breathers, non_fitting_breathers, available_space, space_data_provided, config, suboptimal_note, cfm_required, desiccant_required, v_oil, system_type) ==
  LET context == [ cfm_required |-> cfm_required,
                   desiccant_required |-> desiccant_required,
                   v_oil |-> v_oil, system_type |-> system_type ]
      primary_status ==
        IF suboptimal_note # 0 THEN "Sub-optimal"
        ELSE IF ~IsEmpty(non_fitting_breathers)
        THEN IF ~IsEmpty(fitting_breathers) THEN "Optimal"
             ELSE IF available_space.height_limit = 0
             THEN "Optimal - Remote Installation"
             ELSE "Sub-optimal"
        ELSE ""
  IN  Let([result \in { IF Get(config, "criticality", None) = "A"
          THEN _get_critical_a_recommendation(memo, fitting_breathers,
                                              non_fitting_breathers, config, context)
          ELSE _get_standard_recommendation(memo, fitting_breathers,
                                            non_fitting_breathers,
                                            space_data_provided, config, context) } |->
      [ exc |-> result.exc, selected_breather |-> result.selected_breather,
        status |-> IF primary_status # "" THEN primary_status
                   ELSE IF result.status # Unset THEN result.status
                   ELSE "No Solution Found",
        installation_notes |->
          IF suboptimal_note # 0
          THEN << Line("note", "Sub-optimal: Requirements were relaxed.",
                       suboptimal_note) >> \o result.installation_notes
          ELSE result.installation_notes,
        trace |-> result.trace, memo |-> result.memo ]])

-----------------------------------------------------------------------------
(* ThermalCalculator (core/calculations.py).  An asset row holds its        *)
(* dimensions in whole inches (or whole millimetres when above 50), its oil *)
(* capacity in whole litres and NaN for an empty cell.  Products are        *)
(* divided in stages so that every intermediate value stays below 2^31;     *)
(* quotients truncate.                                                      *)

\* INCHES_CUBED_TO_GALLONS = 0.004329, in millionths
INCHES_CUBED_TO_GALLONS == 4329
\* LITERS_TO_GALLONS = 0.264172, in ten-thousandths
LITERS_TO_GALLONS == 2641
\* DEFAULT_OIL_PERCENTAGE = 0.30, in percent
DEFAULT_OIL_PERCENTAGE == 30
\* OIL_EXPANSION_COEFFICIENT = 0.0003611, in ten-millionths
OIL_EXPANSION_COEFFICIENT == 3611
\* AIR_EXPANSION_COEFFICIENT = 0.001894, in millionths
AIR_EXPANSION_COEFFICIENT == 1894
\* GALLONS_TO_CUBIC_FEET = 7.48, in thousandths
GALLONS_TO_CUBIC_FEET == 7480
\* CFM_SAFETY_FACTOR = 1.4, in tenths
CFM_SAFETY_FACTOR == 14

Max(S) == CHOOSE x \in S : \A y \in S : y <= x
Min(S) == CHOOSE x \in S : \A y \in S : x <= y

\* ThermalCalculator._convert_to_inches (whole inches)
_convert_to_inches(value) ==
  IF value = NaN THEN 0
  ELSE IF value > 50 THEN (value * 10) \div 254
  ELSE value

\* ThermalCalculator._has_full_dimensional_data
_has_full_dimensional_data(row) ==
  \A col \in { "height", "width", "length", "oil_level" } :
     row[col] # NaN /\ row[col] > 0

\* ThermalCalculator._has_oil_capacity_debug
_has_oil_capacity_debug(row) ==
  row.oil_capacity # NaN /\ row.oil_capacity > 0

\* ThermalCalculator.calculate_volumes: volumes in milli-gallons
calculate_volumes(row) ==
  IF _has_full_dimensional_data(row)
  THEN LET height == _convert_to_inches(row.height)
           width == _convert_to_inches(row.width)
           length == _convert_to_inches(row.length)
           oil_height == _convert_to_inches(row.oil_level)
           v_sump == (height * width * length * INCHES_CUBED_TO_GALLONS) \div 1000
           v_oil == (oil_height * width * length * INCHES_CUBED_TO_GALLONS) \div 1000
           v_air == v_sump - v_oil
       IN  [ v_sump |-> v_sump, v_oil |-> v_oil,
             v_air |-> IF v_air > 0 THEN v_air ELSE 0,
             calculation_method |-> "dimensions" ]
  ELSE IF _has_oil_capacity_debug(row)
  THEN LET v_oil == (row.oil_capacity * LITERS_TO_GALLONS) \div 10
           v_sump == (v_oil * 100) \div DEFAULT_OIL_PERCENTAGE
       IN  [ v_sump |-> v_sump, v_oil |-> v_oil, v_air |-> v_sump - v_oil,
             calculation_method |-> "oil_capacity" ]
  ELSE [ v_sump |-> 0, v_oil |-> 0, v_air |-> 0,
         calculation_method |-> "insufficient_data" ]

\* ThermalCalculator.extract_temperatures: the row holds the numbers the
\* pattern finds in the operating temperature text, in text order; the result
\* is << >> for (None, None)
extract_temperatures(operating_temps) ==
  IF Len(operating_temps) >= 2
  THEN LET temps == { operating_temps[k] : k \in DOMAIN operating_temps }
       IN  << Min(temps), Max(temps) >>
  ELSE IF Len(operating_temps) = 1
  THEN << operating_temps[1], operating_temps[1] >>
  ELSE << >>

\* calculate_temperature_differential without the 10-degree floor: any
\* difference of two bounds is returned
calculate_temperature_differential_unfloored(operating_temps, ambient_temps) ==
  LET all_temps == { operating_temps[k] : k \in DOMAIN operating_temps }
                     \cup { ambient_temps[k] : k \in DOMAIN ambient_temps }
      count == Len(operating_temps) + Len(ambient_temps)
  IN  IF count < 2 THEN 40 ELSE Max(all_temps) - Min(all_temps)

\* ThermalCalculator.calculate_temperature_differential: a bound that is None
\* is left out of its pair
calculate_temperature_differential(operating_temps, ambient_temps) ==
  LET all_temps == { operating_temps[k] : k \in DOMAIN operating_temps }
                     \cup { ambient_temps[k] : k \in DOMAIN ambient_temps }
      count == Len(operating_temps) + Len(ambient_temps)
      delta_t == Max(all_temps) - Min(all_temps)
  IN  IF count < 2 THEN 40
      ELSE IF delta_t >= 10 THEN delta_t ELSE 40

\* ThermalCalculator.calculate_thermal_expansion: cfm_required in milli-cfm
calculate_thermal_expansion(volumes, delta_t, safety_factor) ==
  LET delta_v_oil ==
        (((volumes.v_oil * delta_t) \div 100) * OIL_EXPANSION_COEFFICIENT) \div 100000
      delta_v_air ==
        (((volumes.v_air * delta_t) \div 100) * AIR_EXPANSION_COEFFICIENT) \div 10000
      v_total_exp == delta_v_oil + delta_v_air
  IN  [ delta_t |-> delta_t,
        cfm_required |->
          (((v_total_exp * 1000) \div GALLONS_TO_CUBIC_FEET) * safety_factor) \div 10 ]

\* the thermal_analysis a result starts with: {}
NoThermal ==
  [ success |-> FALSE, error_message |-> "", cfm_required |-> 0,
    volumes |-> [ v_sump |-> 0, v_oil |-> 0, v_air |-> 0,
                  calculation_method |-> Unset ],
    delta_t |-> 0 ]

\* calculate_complete_thermal_analysis without the test of
\* calculation_method: the expansion is computed on the zero volumes
calculate_complete_thermal_analysis_unguarded(row, ambient_temps, safety_factor) ==
  LET volumes == calculate_volumes(row)
      operating_temps == extract_temperatures(row.operating_temps)
      delta_t == calculate_temperature_differential(operating_temps, ambient_temps)
      expansion == calculate_thermal_expansion(volumes, delta_t, safety_factor)
  IN  [ success |-> TRUE, error_message |-> "",
        cfm_required |-> expansion.cfm_required, volumes |-> volumes,
        delta_t |-> delta_t ]

\* ThermalCalculator.calculate_complete_thermal_analysis(row, ambient_temps)
\* with self.safety_factor
calculate_complete_thermal_analysis(row, ambient_temps, safety_factor) ==
  LET volumes == calculate_volumes(row)
      operating_temps == extract_temperatures(row.operating_temps)
      delta_t == calculate_temperature_differential(operating_temps, ambient_temps)
      expansion == calculate_thermal_expansion(volumes, delta_t, safety_factor)
  IN  IF volumes.calculation_method = "insufficient_data"
      THEN [ NoThermal EXCEPT !.volumes = volumes,
               !.error_message = "Insufficient data for volume calculation - no dimensions or oil capacity" ]
      ELSE [ success |-> TRUE, error_message |-> "",
             cfm_required |-> expansion.cfm_required, volumes |-> volumes,
             delta_t |-> delta_t ]

\* A Python call: the keyword arguments a call site passes must be parameters
\* of the function called, else the call raises TypeError before the body runs
Call(parameters, keywords, value) ==
  IF keywords \subseteq parameters
  THEN [ exc |-> NoExc, value |-> value ]
  ELSE [ exc |-> TypeError("got an unexpected keyword argument"), value |-> value ]

-----------------------------------------------------------------------------
(* DataProcessor (core/data_processor.py).  A result is the dict the code   *)
(* builds: texts are Lines, breathers are row labels, error_message is a    *)
(* [kind, arg] pair (the text and what it was formatted with).              *)

Msg(text) == [ kind |-> text, arg |-> "" ]

\* operational_factors of a result before the factors are stored: {}
NoFactors ==
  [ ci |-> Unset, wcci |-> Unset, esi |-> Unset, desiccant_required |-> FALSE,
    humidity_level |-> Unset, avg_humidity |-> NaN, oil_mist_evidence |-> FALSE,
    vibration |-> Unset, mobile_application |-> FALSE,
    particle_filter_required |-> FALSE ]

\* DataProcessor._update_result_with_error
_update_result_with_error(result, message) ==
  [ result EXCEPT
      !.error_message = message,
      !.result_status = "No Solution Found",
      !.installation_notes =
        << Line("note", "No suitable breathers found that meet all technical requirements.", 0) >> ]

\* DataProcessor._create_error_result
_create_error_result(error_message) ==
  [ success |-> FALSE, error_message |-> error_message, result_status |-> "Error",
    rule_trace |-> << Line("Error", error_message.kind, 0) >>,
    selected_breather |-> << >>,
    installation_notes |->
      << Line("note", "Processing failed due to a critical error.", 0) >>,
    operational_factors |-> NoFactors,
    lcc_breather |-> NoRow, cost_benefit_breather |-> NoRow ]

\* DataProcessor._log_rejections
_log_rejections(result, before_df, after_df, reason) ==
  IF Len(before_df.rows) > Len(after_df.rows)
  THEN LET rejected_df == SelectSeq(before_df.rows, LAMBDA i : i \notin RowSet(after_df))
           head == SubSeq(rejected_df, 1, IF Len(rejected_df) < 2 THEN Len(rejected_df) ELSE 2)
       IN  [ result EXCEPT !.rejected_candidates =
               @ \o [ k \in DOMAIN head |-> [ model |-> head[k], reason |-> reason ] ] ]
  ELSE result

\* fallback_attempts with a last attempt that relaxes the mobile filter too
fallback_attempts_relaxing_mobile ==
  << { "vibration" }, { "oil_mist" }, { "vibration", "oil_mist" }, { "esi" },
     { "vibration", "oil_mist", "esi", "mobile" } >>

\* process_single_record: fallback_attempts
fallback_attempts ==
  << { "vibration" }, { "oil_mist" }, { "vibration", "oil_mist" }, { "esi" },
     { "vibration", "oil_mist", "esi" } >>

\* the loop without `if not ...empty: break`: the first attempt is accepted
\* whatever it leaves
FallbackLoop_unchecked(k, memo, initial_candidates, row, config, volumes) ==
  Let([rule4_fallback_result \in
         { apply_rule_4(memo, initial_candidates, row, config, volumes,
                        fallback_attempts[k]) } |->
        [ attempt |-> k,
          filtered_breathers |-> rule4_fallback_result.filtered_breathers,
          memo |-> rule4_fallback_result.memo ]])

\* process_single_record: `for constraints in fallback_attempts`, from attempt
\* k; attempt is the number of the attempt accepted, 0 when none was
RECURSIVE FallbackLoop(_, _, _, _, _, _)
FallbackLoop(k, memo, initial_candidates, row, config, volumes) ==
  IF k > Len(fallback_attempts)
  THEN [ attempt |-> 0,
         filtered_breathers |-> Filtered(initial_candidates, { i \in PoolIds : FALSE }),
         memo |-> memo ]
  ELSE Let([rule4_fallback_result \in { apply_rule_4(memo, initial_candidates, row, config, volumes,
                        fallback_attempts[k]) } |->
        IF ~IsEmpty(rule4_fallback_result.filtered_breathers)
        THEN [ attempt |-> k,
               filtered_breathers |-> rule4_fallback_result.filtered_breathers,
               memo |-> rule4_fallback_result.memo ]
        ELSE FallbackLoop(k + 1, rule4_fallback_result.memo, initial_candidates,
                          row, config, volumes)])

\* process_single_record, from the sump gate to the return of the result
\* (rules 5, 6, 7 and the LCC / cost-benefit alternatives)
SelectStages(memo, result, row, config, candidate_breathers, suboptimal_note, cfm_required, desiccant_required, volumes) ==
  LET v_oil == volumes.v_oil
      space_str == row.clearance
      space_data_provided == space_str \notin { None, "" }
      available_space == _parse_available_space(space_str)
      context == [ cfm_required |-> cfm_required,
                   desiccant_required |-> desiccant_required,
                   v_oil |-> v_oil, system_type |-> "splash" ]
  IN
  Let([rule5_result \in { apply_rule_5(memo, candidate_breathers, volumes, "splash") } |->
  Let([result5 \in { [ _log_rejections(result, candidate_breathers,
                        rule5_result.filtered_breathers, "Sump Volume (Rule 5)")
          EXCEPT !.rule_trace = Append(@, rule5_result.trace) ] } |->
  IF IsEmpty(rule5_result.filtered_breathers)
  THEN [ result |-> _update_result_with_error(
                      result5, Msg("No breathers meet sump volume requirements")),
         memo |-> rule5_result.memo ]
  ELSE
  Let([rule6_result \in { apply_rule_6(rule5_result.filtered_breathers, available_space) } |->
  IF rule6_result.exc # NoExc
  THEN [ result |-> _update_result_with_error(result5, rule6_result.exc),
         memo |-> rule5_result.memo ]
  ELSE
  Let([result6 \in { _log_rejections(result5, rule5_result.filtered_breathers,
                      rule6_result.fitting_breathers, "Available Space (Rule 6)") } |->
  Let([rule7_result \in { apply_rule_7(rule5_result.memo, rule6_result.fitting_breathers,
                   rule6_result.non_fitting_breathers, available_space,
                   space_data_provided, config, suboptimal_note, cfm_required,
                   desiccant_required, v_oil, "splash") } |->
  IF rule7_result.exc # NoExc
  THEN [ result |-> _update_result_with_error(result6, rule7_result.exc),
         memo |-> rule7_result.memo ]
  ELSE
  Let([result7 \in { [ result6 EXCEPT
          !.rule_trace = @ \o << rule6_result.trace, rule7_result.trace >>,
          !.selected_breather = rule7_result.selected_breather,
          !.result_status = rule7_result.status,
          !.installation_notes = rule7_result.installation_notes,
          !.success = TRUE ] } |->
  Let([all_candidates \in { Concat(rule6_result.fitting_breathers, rule6_result.non_fitting_breathers) } |->
  Let([lcc \in { select_lcc_breather(all_candidates, context) } |->
  IF lcc.exc # NoExc
  THEN [ result |-> _update_result_with_error(result7, lcc.exc),
         memo |-> rule7_result.memo ]
  ELSE
  Let([cb \in { select_cost_benefit_breather(rule7_result.memo, all_candidates, context) } |->
  IF cb.exc # NoExc
  THEN [ result |-> _update_result_with_error(
                      [ result7 EXCEPT !.lcc_breather = lcc.choice ], cb.exc),
         memo |-> cb.memo ]
  ELSE [ result |-> [ result7 EXCEPT !.lcc_breather = lcc.choice,
                                     !.cost_benefit_breather = cb.choice ],
         memo |-> cb.memo ]])])])])])])])])])

\* the relaxation entered whatever the un-relaxed filters left
TryFallbacks_always(candidate_breathers) == TRUE

\* process_single_record: `if candidate_breathers.empty:` before the
\* fallback attempts
TryFallbacks(candidate_breathers) == IsEmpty(candidate_breathers)

\* process_single_record, from the thermal analysis the calculator returned to
\* the end of the operational stage and its relaxation
CandidateStages(memo, result, row, config, thermal_analysis, breather_catalog) ==
  LET cfm_required == thermal_analysis.cfm_required
      volumes == thermal_analysis.volumes
      factors == _extract_operational_factors(row, config)
  IN
  Let([result_t \in { [ result EXCEPT !.thermal_analysis = thermal_analysis ] } |->
  IF ~thermal_analysis.success
  THEN [ result |-> _update_result_with_error(
                      result_t, [ kind |-> "Thermal calculation failed",
                                  arg |-> thermal_analysis.error_message ]),
         memo |-> memo ]
  ELSE
  Let([initial_candidates \in { apply_rule_3(breather_catalog, cfm_required) } |->
  Let([result3 \in { [ result_t EXCEPT
          !.rule_trace = @ \o << Line("2", "CFM required", cfm_required),
                                 Line("3", "breathers meet CFM",
                                      Len(initial_candidates.rows)) >>,
          !.operational_factors = factors ] } |->
  IF IsEmpty(initial_candidates)
  THEN [ result |-> _update_result_with_error(
                      result3, Msg("No breathers found with CFM >= required")),
         memo |-> memo ]
  ELSE
  Let([rule4_result \in { apply_rule_4(memo, initial_candidates, row, config, volumes, {}) } |->
  Let([result4 \in { [ _log_rejections(result3, initial_candidates,
                        rule4_result.filtered_breathers,
                        "Operational Context (Rule 4)")
          EXCEPT !.rule_trace = @ \o rule4_result.trace ] } |->
  IF ~TryFallbacks(rule4_result.filtered_breathers)
  THEN SelectStages(rule4_result.memo, result4, row, config,
                    rule4_result.filtered_breathers, 0, cfm_required,
                    factors.desiccant_required, volumes)
  ELSE
  Let([relaxed \in { FallbackLoop(1, rule4_result.memo, initial_candidates, row, config, volumes) } |->
  Let([result_relaxed \in { [ result4 EXCEPT !.rule_trace =
          @ \o << Line("!", "No optimal solution found. Trying sub-optimal fallbacks.", 0) >>
            \o (IF relaxed.attempt # 0
                THEN << Line("note", "Sub-optimal: Requirements were relaxed.",
                             relaxed.attempt) >>
                ELSE << >>) ] } |->
  IF IsEmpty(relaxed.filtered_breathers)
  THEN [ result |-> _update_result_with_error(
                      result_relaxed,
                      Msg("No breathers meet core operational requirements.")),
         memo |-> relaxed.memo ]
  ELSE SelectStages(relaxed.memo, result_relaxed, row, config,
                    relaxed.filtered_breathers, relaxed.attempt, cfm_required,
                    factors.desiccant_required, volumes)])])])])])])])

-----------------------------------------------------------------------------
(* State.  One processor instance (DataProcessor for the splash assets of   *)
(* the data report, CirculatingSystemsDataProcessor for its circulating     *)
(* assets) and one run of its process_all_records.                          *)

VARIABLES
  system,              \* "splash": a DataProcessor; "circulating": the other
  call_sites,          \* how the processors call the ThermalCalculator
  full_dataset,        \* excel_handler.data_report_df: the rows of the report
  global_config,       \* self.global_config
  overrides,           \* self.overrides: row label -> partial config
  breather_catalog,    \* self.breather_catalog, after the brand filter
  catalog_columns,     \* self.rule_engine.catalog_columns (the column memo)
  rule_engine_config,  \* self.rule_engine.config
  safety_factor,       \* self.thermal_calculator.safety_factor, in tenths
  results,             \* self.results: row label -> result
  cursor,              \* position of the iteration over data_to_process
  returned             \* process_all_records has returned self.results

vars == << system, call_sites, full_dataset, global_config, overrides,
           breather_catalog, catalog_columns, rule_engine_config,
           safety_factor, results, cursor, returned >>

\* The keyword arguments the processors pass to the calculator besides the
\* positional ones: system_type, as data_processor.py:92 and
\* circulating_processor.py:105 are written; none when the calculator is
\* called with the parameters it declares
call_keywords ==
  IF call_sites = "as written" THEN { "system_type" } ELSE {}

\* process_single_record: the result a record starts with
NewResult(row_index) ==
  [ success |-> FALSE, row_index |-> row_index, rule_trace |-> << >>,
    thermal_analysis |-> NoThermal, selected_breather |-> << >>,
    result_status |-> "Failed", installation_notes |-> << >>,
    error_message |-> NoExc, rejected_candidates |-> << >>,
    operational_factors |-> NoFactors, lcc_breather |-> NoRow,
    cost_benefit_breather |-> NoRow ]

\* DataProcessor.process_single_record(row, row_index, config): the result
\* and the column memo as the call leaves it
process_single_record(memo, row, row_index, config, catalog) ==
  LET result == NewResult(row_index)
      rule1_result == apply_rule_1(row, config)
      result1 == [ result EXCEPT !.rule_trace =
                     << Line("1", Get(config, "criticality", "N/A"), 0) >> ]
      ambient_temps == << config["min_amb_temp"], config["max_amb_temp"] >>
  IN  IF IsEmpty(catalog)
      THEN [ result |-> _update_result_with_error(
                          result, Msg("Breather catalog is not loaded or is empty.")),
             memo |-> memo ]
      ELSE IF ~rule1_result.breather_required
      THEN [ result |-> [ result1 EXCEPT !.result_status = "No Breather Required",
                                         !.success = TRUE ],
             memo |-> memo ]
      ELSE
      Let([thermal_analysis \in { Call({ "row", "ambient_temps" }, call_keywords,
               calculate_complete_thermal_analysis(
                 row, ambient_temps,
                 Get(config, "safety_factor", CFM_SAFETY_FACTOR))) } |->
      IF thermal_analysis.exc # NoExc
      THEN [ result |-> _update_result_with_error(result1, thermal_analysis.exc),
             memo |-> memo ]
      ELSE CandidateStages(memo, result1, row, config, thermal_analysis.value,
                           catalog)])

-----------------------------------------------------------------------------
(* CirculatingSystemsDataProcessor (core/circulating_processor.py)          *)

\* CirculatingSystemsDataProcessor._convert_to_gpm: milli-gpm of a flow in
\* whole units
_convert_to_gpm(flow_value, flow_unit) ==
  IF flow_value = NaN \/ flow_value <= 0 THEN 0
  ELSE IF flow_unit = "lpm" THEN (flow_value * LITERS_TO_GALLONS) \div 10
  ELSE flow_value * 1000

\* CirculatingSystemsDataProcessor._find_pump_siblings: the positions in the
\* dataset of the pump records of the machine, the asset itself excluded
_find_pump_siblings(dataset, target_machine, current_index) ==
  SelectSeq([ k \in DOMAIN dataset |-> k ],
            LAMBDA k : /\ dataset[k].machine = target_machine
                       /\ k # current_index
                       /\ dataset[k].maint_point = "Pump (Oil)"
                       /\ dataset[k].flow_rate # NaN
                       /\ dataset[k].flow_rate > 0)

RECURSIVE SumFlows(_, _, _)
SumFlows(dataset, siblings, k) ==
  IF k > Len(siblings) THEN 0
  ELSE _convert_to_gpm(dataset[siblings[k]].flow_rate, dataset[siblings[k]].flow_unit)
       + SumFlows(dataset, siblings, k + 1)

\* cfm_required = (gpm / 7.48) * 1.4, in milli-cfm
FlowToCfm(gpm) == (((gpm * 1000) \div GALLONS_TO_CUBIC_FEET) * CFM_SAFETY_FACTOR) \div 10

\* the 15 GPM safety minimum, in milli-gpm
SafetyMinimumGpm == 15000

\* flow_analysis of a result before the flow is computed: {}
NoFlow == [ cfm_required |-> 0, total_flow |-> 0, calculation_method |-> Unset ]

\* CirculatingSystemsDataProcessor.calculate_gpm_and_cfm
calculate_gpm_and_cfm(dataset, row, row_index, final_config) ==
  LET manual_gpm == final_config["manual_gpm_override"]
      siblings == IF row.machine # ""
                  THEN _find_pump_siblings(dataset, row.machine, row_index)
                  ELSE << >>
      cross == SumFlows(dataset, siblings, 1)
      estimated == IF row.oil_capacity # NaN /\ row.oil_capacity > 0
                   THEN (row.oil_capacity * LITERS_TO_GALLONS) \div 30
                   ELSE 0
      total_flow_gpm == IF siblings # << >> /\ cross # 0 THEN cross ELSE estimated
      method == IF siblings # << >> /\ cross # 0 THEN "Cross-Reference"
                ELSE "Estimated from Oil Capacity"
  IN  IF Get(final_config, "enable_manual_gpm", FALSE)
         /\ Get(final_config, "manual_gpm_override", 0) > 0
      THEN [ cfm_required |-> FlowToCfm(manual_gpm), total_flow |-> manual_gpm,
             calculation_method |-> "Manual Override" ]
      ELSE IF total_flow_gpm <= 0
      THEN [ cfm_required |-> FlowToCfm(SafetyMinimumGpm),
             total_flow |-> SafetyMinimumGpm,
             calculation_method |-> "Safety Minimum (15 GPM)" ]
      ELSE [ cfm_required |-> FlowToCfm(total_flow_gpm),
             total_flow |-> total_flow_gpm, calculation_method |-> method ]

\* gpm_analysis of a result before it is computed: {}
NoGpm == [ gpm_margin |-> NaN, breather_max_gpm |-> NaN ]

\* _process_single_record, from the ranking of the gated candidates to the
\* return of the result
CirculatingSelect(memo, result, candidates, context, asset_gpm) ==
  Let([selected \in { _rank_and_select_best_breather(memo, candidates, context) } |->
  IF selected.exc # NoExc
  THEN [ result |-> [ result EXCEPT !.error_message = selected.exc ],
         memo |-> selected.memo ]
  ELSE IF selected.choice = NoRow
  THEN [ result |-> [ result EXCEPT !.error_message =
                        Msg("No suitable breather found after all rules.") ],
         memo |-> selected.memo ]
  ELSE
  Let([result_sel \in { [ result EXCEPT !.selected_breather = << selected.choice >> ] } |->
  Let([lcc \in { select_lcc_breather(candidates, context) } |->
  IF lcc.exc # NoExc
  THEN [ result |-> [ result_sel EXCEPT !.error_message = lcc.exc ],
         memo |-> selected.memo ]
  ELSE
  Let([cb \in { select_cost_benefit_breather(selected.memo, candidates, context) } |->
  IF cb.exc # NoExc
  THEN [ result |-> [ result_sel EXCEPT !.lcc_breather = lcc.choice,
                                        !.error_message = cb.exc ],
         memo |-> cb.memo ]
  ELSE
  LET breather_gpm == IF ColGpm \in candidates.cols
                      THEN Pool[selected.choice][ColGpm] ELSE NaN
  IN  [ result |->
          [ result_sel EXCEPT
              !.lcc_breather = lcc.choice,
              !.cost_benefit_breather = cb.choice,
              !.gpm_analysis =
                 IF breather_gpm # NaN /\ asset_gpm > 0
                 THEN [ gpm_margin |-> (breather_gpm * 1000) \div asset_gpm,
                        breather_max_gpm |-> breather_gpm ]
                 ELSE @,
              !.success = TRUE, !.result_status = "Optimal",
              !.installation_notes =
                << Line("note", "Direct installation recommended. Verify space constraints.", 0) >> ],
        memo |-> cb.memo ]])])])])

\* CirculatingSystemsDataProcessor._process_single_record(row, row_index,
\* final_config): the result and the column memo as the call leaves it
_process_single_record(memo, dataset, row, row_index, final_config, catalog) ==
  LET result ==
        [ success |-> FALSE, row_index |-> row_index,
          rule_trace |-> << Line("1", Get(final_config, "criticality", "A"), 0) >>,
          flow_analysis |-> NoFlow, selected_breather |-> << >>,
          result_status |-> "Failed", installation_notes |-> << >>,
          error_message |-> NoExc, gpm_analysis |-> NoGpm,
          lcc_breather |-> NoRow, cost_benefit_breather |-> NoRow ]
      rule1 == apply_rule_1(row, final_config)
      hasGpm == ColGpm \in catalog.cols
  IN
  IF ~rule1.breather_required
  THEN [ result |-> [ result EXCEPT !.result_status = "No Breather Required",
                                    !.success = TRUE ],
         memo |-> memo ]
  ELSE
  Let([flow_analysis \in { calculate_gpm_and_cfm(dataset, row, row_index, final_config) } |->
  Let([result2 \in { [ result EXCEPT
          !.flow_analysis = flow_analysis,
          !.rule_trace = Append(@, Line("2 (GPM-based)", "CFM required",
                                        flow_analysis.cfm_required)) ] } |->
  Let([volumes \in { Call({ "row" }, call_keywords, calculate_volumes(row)) } |->
  IF volumes.exc # NoExc
  THEN [ result |-> [ result2 EXCEPT !.error_message = volumes.exc ],
         memo |-> memo ]
  ELSE IF IsEmpty(catalog)
  THEN [ result |-> [ result2 EXCEPT !.error_message =
                        Msg("Breather catalog is empty or filtered out.") ],
         memo |-> memo ]
  ELSE
  Let([by_gpm \in { IF hasGpm
      THEN Filtered(catalog, { i \in PoolIds : CellGE(Pool[i][ColGpm],
                                               flow_analysis.total_flow) })
      ELSE catalog } |->
  Let([result25 \in { IF hasGpm
      THEN [ result2 EXCEPT !.rule_trace =
               Append(@, Line("2.5", "Filter by Breather GPM", Len(by_gpm.rows))) ]
      ELSE result2 } |->
  IF IsEmpty(by_gpm)
  THEN [ result |-> [ result25 EXCEPT !.error_message =
                        Msg("No breathers support required GPM.") ],
         memo |-> memo ]
  ELSE
  Let([by_cfm \in { apply_rule_3(by_gpm, flow_analysis.cfm_required) } |->
  Let([result3 \in { [ result25 EXCEPT !.rule_trace =
          Append(@, Line("3", "Filter by CFM", Len(by_cfm.rows))) ] } |->
  IF IsEmpty(by_cfm)
  THEN [ result |-> [ result3 EXCEPT !.error_message =
                        Msg("No breathers meet minimum CFM.") ],
         memo |-> memo ]
  ELSE
  Let([rule4_result \in { apply_rule_4(memo, by_cfm, row, final_config, volumes.value, {}) } |->
  Let([result4 \in { [ result3 EXCEPT !.rule_trace = @ \o rule4_result.trace ] } |->
  IF IsEmpty(rule4_result.filtered_breathers)
  THEN [ result |-> [ result4 EXCEPT !.error_message =
                        Msg("No breathers meet operational requirements.") ],
         memo |-> rule4_result.memo ]
  ELSE
  Let([rule5_result \in { apply_rule_5(rule4_result.memo, rule4_result.filtered_breathers,
                   volumes.value, "circulating") } |->
  Let([result5 \in { [ result4 EXCEPT !.rule_trace = Append(@, rule5_result.trace) ] } |->
  IF IsEmpty(rule5_result.filtered_breathers)
  THEN [ result |-> [ result5 EXCEPT !.error_message =
                        Msg("No breathers meet sump volume requirements.") ],
         memo |-> rule5_result.memo ]
  ELSE CirculatingSelect(
         rule5_result.memo, result5, rule5_result.filtered_breathers,
         [ cfm_required |-> flow_analysis.cfm_required,
           v_oil |-> volumes.value.v_oil, system_type |-> "circulating" ],
         flow_analysis.total_flow)])])])])])])])])])])])

-----------------------------------------------------------------------------
(* Inputs of the model                                                      *)

\* the longest data report of the model
MaxAssets == 2

Asset(machine, maint_point, flow_rate, flow_unit, oil_capacity, dims, operating_temps, clearance, contaminant, water, humidity, oil_mist, vibration) ==
  [ machine |-> machine, maint_point |-> maint_point, flow_rate |-> flow_rate,
    flow_unit |-> flow_unit, oil_capacity |-> oil_capacity,
    height |-> dims[1], width |-> dims[2], length |-> dims[3],
    oil_level |-> dims[4], operating_temps |-> operating_temps,
    clearance |-> clearance, contaminant |-> contaminant, water |-> water,
    humidity |-> humidity, oil_mist |-> oil_mist, vibration |-> vibration ]

\* the rows a data report of the model is drawn from: a gearbox with full
\* dimensions, a pump with a flow rate and a declared capacity, a reservoir
\* with a declared capacity, a reservoir with dimensions only, a gearbox
\* with neither capacity nor full dimensions, a bearing with both a
\* declared capacity and full dimensions, a reservoir with neither, and a
\* bearing with a low oil level
Roster ==
  << Asset("M1", "Gearbox Housing (Oil)", NaN, "gpm", NaN, << 26, 24, 24, 6 >>,
           << 120, 180 >>, None, "Low", "No Water Contact, Typical Humidity",
           50, "no", "<0.2 ips"),
     Asset("M1", "Pump (Oil)", 10, "gpm", 20, << NaN, NaN, NaN, NaN >>,
           << >>, "2 to <4 inches", "Severe", "Severe Water Contact",
           80, "yes", ">0.4 ips"),
     Asset("M1", "Circulating System Reservoir (Oil)", NaN, "gpm", 200,
           << NaN, NaN, NaN, NaN >>, << 140 >>, None, "Medium",
           "Occasional Washdowns", NaN, "no", "0.2-0.4 ips"),
     Asset("M2", "Hydraulic System Reservoir (Oil)", NaN, "lpm", NaN,
           << 20, 20, 20, 5 >>, << >>, "no port available", "Extreme",
           "Submerged in Water", 90, "yes", ">0.4 ips"),
     Asset("M2", "Gearbox Housing (Oil)", NaN, "gpm", NaN, << 30, NaN, 30, 10 >>,
           << 150 >>, "less than 2 inches", "Low",
           "No Water Contact, Very Dry Conditions", 40, "no", "<0.2 ips"),
     Asset("M3", "Bearing (Oil)", NaN, "gpm", 15, << 24, 20, 20, 6 >>,
           << 125, 150 >>, "4 to <6 inches", "Medium",
           "No Water Contact, Typical Humidity", 60, "no", "<0.2 ips"),
     Asset("M3", "Circulating System Reservoir (Oil)", NaN, "gpm", NaN,
           << NaN, NaN, NaN, NaN >>, << >>, None, "Low",
           "No Water Contact, Typical Humidity", 55, "no", "<0.2 ips"),
     Asset("M4", "Bearing (Oil)", NaN, "gpm", NaN, << 24, 20, 20, 2 >>,
           << 125, 150 >>, "4 to <6 inches", "Medium",
           "No Water Contact, Typical Humidity", 60, "no", "<0.2 ips") >>

\* the data reports: up to MaxAssets consecutive rows of the roster, from any
\* of its rows on (wrapping around)
Datasets ==
  { [ k \in 1..n |-> Roster[((start + k - 2) % Len(Roster)) + 1] ] :
      start \in DOMAIN Roster, n \in 1..MaxAssets }

\* a catalog sheet with the given rows and every column of the input contract
Frame(rows) == [ cols |-> ColumnSet, rows |-> rows ]

Catalogs ==
  { EmptyFrame, Frame(<< 1 >>), Frame(<< 1, 2 >>), Frame(<< 3, 4 >>),
    Frame(<< 1, 6 >>), Frame(<< 1, 2, 3, 4, 5 >>) }

\* dict union: the keys of patch override those of config
Patch(config, patch) ==
  [ k \in DOMAIN config \cup DOMAIN patch |->
      IF k \in DOMAIN patch THEN patch[k] ELSE config[k] ]

EmptyDict == [ k \in {} |-> 0 ]

GlobalConfigs ==
  { Patch(base, brand) :
      base \in { [ criticality |-> "A", mobile_application |-> FALSE ],
                 [ criticality |-> "B1", mobile_application |-> TRUE,
                   min_amb_temp |-> 50, max_amb_temp |-> 100,
                   safety_factor |-> 14 ],
                 [ criticality |-> "C" ],
                 [ mobile_application |-> FALSE, high_particle_removal |-> TRUE,
                   esi_manual |-> "Extended service" ] },
      brand \in { EmptyDict, [ brand_filter |-> "All Brands" ],
                  [ brand_filter |-> "Borea" ] } }

\* the overrides the application collects: row label -> dict
OverrideSets ==
  { EmptyDict,
    1 :> [ criticality |-> "C" ],
    2 :> [ mobile_application |-> TRUE, safety_factor |-> 20,
           min_amb_temp |-> 70, max_amb_temp |-> 75 ],
    1 :> [ criticality |-> "B2", enable_manual_gpm |-> TRUE,
           manual_gpm_override |-> 13357 ] }

-----------------------------------------------------------------------------
(* Construction and process_all_records                                     *)

\* DataProcessor.__init__ / CirculatingSystemsDataProcessor.__init__: the
\* catalog the processor keeps, after the brand filter
__init__(catalog, config) ==
  LET brand_to_filter == Get(config, "brand_filter", None)
  IN  IF brand_to_filter \notin { None, "" } /\ brand_to_filter # "All Brands"
         /\ ~IsEmpty(catalog)
      THEN Filtered(catalog, { i \in PoolIds : Pool[i][ColBrand] = brand_to_filter })
      ELSE catalog

\* ExcelHandler.get_gearbox_data / get_circulating_data: the labels of the
\* rows of the report that the processor of the system is given
splash_types ==
  { "Gearbox Housing (Oil)", "Bearing (Oil)", "Pump (Oil)",
    "Electric Motor Bearing (Oil)", "Blower (Oil)" }
circ_types ==
  { "Circulating System Reservoir (Oil)", "Hydraulic System Reservoir (Oil)" }

data_to_process ==
  SelectSeq([ k \in DOMAIN full_dataset |-> k ],
            LAMBDA k : full_dataset[k].maint_point \in
                         (IF system = "splash" THEN splash_types ELSE circ_types))

\* DataProcessor.process_all_records: final_config of the asset idx
SplashFinalConfig(idx) ==
  LET defaults == [ min_amb_temp |-> 60, max_amb_temp |-> 80 ]
      final_config == Patch(defaults, global_config)
  IN  IF idx \in DOMAIN overrides THEN Patch(final_config, overrides[idx])
      ELSE final_config

\* CirculatingSystemsDataProcessor.process_all_records: final_config
CirculatingFinalConfig(idx) ==
  IF idx \in DOMAIN overrides THEN Patch(global_config, overrides[idx])
  ELSE global_config

\* self.results rebuilt at every asset: only the last result is kept
Store_fresh(map, idx, result) == [ i \in { idx } |-> result ]

\* self.results[idx] = result
Store(map, idx, result) ==
  [ i \in DOMAIN map \cup { idx } |-> IF i = idx THEN result ELSE map[i] ]

Construct(keywords) ==
  /\ system \in { "splash", "circulating" }
  /\ call_sites \in keywords
  /\ full_dataset \in Datasets
  /\ global_config \in GlobalConfigs
  /\ overrides \in OverrideSets
  /\ \E catalog \in Catalogs : breather_catalog = __init__(catalog, global_config)
  /\ catalog_columns = EmptyMemo
  /\ rule_engine_config = IF system = "splash" THEN EmptyDict ELSE global_config
  /\ safety_factor = CFM_SAFETY_FACTOR
  /\ results = EmptyDict
  /\ cursor = 1
  /\ returned = FALSE

\* the processors as they are written
Init == Construct({ "as written" })

\* the processors as written and with the calculator called with the
\* parameters it declares
InitEngine == Construct({ "as written", "declared" })

\* one iteration of DataProcessor.process_all_records
ProcessSplashRecord ==
  /\ system = "splash" /\ ~returned /\ cursor <= Len(data_to_process)
  /\ \E idx \in { data_to_process[cursor] } :
     \E final_config \in { SplashFinalConfig(idx) } :
     \E out \in { process_single_record(catalog_columns, full_dataset[idx], idx,
                                        final_config, breather_catalog) } :
         /\ results' = Store(results, idx, out.result)
         /\ catalog_columns' = out.memo
         /\ rule_engine_config' = IF IsEmpty(breather_catalog)
                                  THEN rule_engine_config ELSE final_config
         /\ safety_factor' = IF IsEmpty(breather_catalog) THEN safety_factor
                             ELSE Get(final_config, "safety_factor", CFM_SAFETY_FACTOR)
  /\ cursor' = cursor + 1
  /\ UNCHANGED << system, call_sites, full_dataset, global_config, overrides,
                  breather_catalog, returned >>

\* one iteration of CirculatingSystemsDataProcessor.process_all_records
ProcessCirculatingRecord ==
  /\ system = "circulating" /\ ~returned /\ cursor <= Len(data_to_process)
  /\ \E idx \in { data_to_process[cursor] } :
     \E final_config \in { CirculatingFinalConfig(idx) } :
     \E out \in { _process_single_record(catalog_columns, full_dataset,
                                         full_dataset[idx], idx, final_config,
                                         breather_catalog) } :
         /\ results' = Store(results, idx, out.result)
         /\ catalog_columns' = out.memo
         /\ rule_engine_config' = final_config
  /\ cursor' = cursor + 1
  /\ UNCHANGED << system, call_sites, full_dataset, global_config, overrides,
                  breather_catalog, safety_factor, returned >>

\* process_all_records: the loop is over, return self.results
Return ==
  /\ ~returned /\ cursor > Len(data_to_process)
  /\ returned' = TRUE
  /\ UNCHANGED << system, call_sites, full_dataset, global_config, overrides,
                  breather_catalog, catalog_columns, rule_engine_config,
                  safety_factor, results, cursor >>

Next == ProcessSplashRecord \/ ProcessCirculatingRecord \/ Return

Spec == Init /\ [][Next]_vars

SpecEngine == InitEngine /\ [][Next]_vars

\* the `for idx, row in data_to_process.iterrows()` of process_all_records
\* without its body: the loop takes the next asset, or ends and returns
LoopControl ==
  /\ ~returned
  /\ \/ cursor <= Len(data_to_process) /\ cursor' = cursor + 1
        /\ UNCHANGED returned
     \/ cursor > Len(data_to_process) /\ returned' = TRUE /\ UNCHANGED cursor

\* process_all_records as a loop that nothing suspends between two assets:
\* the call is synchronous, so the loop goes on while it can
FairSpec == SpecEngine /\ WF_<< cursor, returned >>(LoopControl)

-----------------------------------------------------------------------------
(* Export: get_results_as_dataframe and ExcelHandler.merge_results_with_original *)

\* the keys of a dict in insertion order: process_all_records inserts the
\* results in the order of the rows of the report, which is that of the labels
Items(map) ==
  [ n \in 1..Cardinality(DOMAIN map) |->
      CHOOSE idx \in DOMAIN map : Cardinality({ j \in DOMAIN map : j < idx }) = n - 1 ]

\* get_results_as_dataframe of either processor: one row per stored result,
\* with the columns original_index, Breather_Model and Installation_Notes
get_results_as_dataframe ==
  [ n \in 1..Cardinality(DOMAIN results) |->
      LET idx == Items(results)[n]
          result == results[idx]
      IN  IF /\ result.selected_breather # << >>
             /\ system = "circulating" => result.success
          THEN [ original_index |-> idx,
                 Breather_Model |-> Pool[result.selected_breather[1]][ColModel],
                 Installation_Notes |-> result.installation_notes ]
          ELSE [ original_index |-> idx, Breather_Model |-> NaN,
                 Installation_Notes |-> result.error_message ] ]

\* final_df.drop(columns=['original_index']) on the columns of the results
DropKey(row_data) ==
  [ c \in DOMAIN row_data \ { "original_index" } |-> row_data[c] ]

\* pd.merge(left, right, on='original_index', how='left') after reset_index,
\* which gives the k-th row of the report the key k: the rows of left in their
\* order, each once per row of right with its key, and once with NaN in the
\* columns of right when there is none; `result` holds the columns of right
\* as << columns >>, and << >> where they are NaN
RECURSIVE MergeLeft(_, _, _)
MergeLeft(left, right, k) ==
  IF k > Len(left) THEN << >>
  ELSE LET matches == SelectSeq(right, LAMBDA r : r.original_index = k)
       IN  (IF matches = << >>
            THEN << [ asset |-> left[k], result |-> << >> ] >>
            ELSE [ m \in DOMAIN matches |->
                     [ asset |-> left[k], result |-> << DropKey(matches[m]) >> ] ])
             \o MergeLeft(left, right, k + 1)

\* merge_results_with_original with how='inner': the rows of the report
\* without a result are dropped
merge_results_with_original_inner(data_report_df, results_df) ==
  IF results_df = << >>
  THEN [ k \in DOMAIN data_report_df |-> [ asset |-> data_report_df[k], result |-> << >> ] ]
  ELSE SelectSeq(MergeLeft(data_report_df, results_df, 1),
                 LAMBDA row : row.result # << >>)

\* ExcelHandler.merge_results_with_original(results_df) on
\* self.data_report_df; a results_df without rows is pd.DataFrame(), which has
\* no original_index column: the report is returned as it is
merge_results_with_original(data_report_df, results_df) ==
  IF results_df = << >>
  THEN [ k \in DOMAIN data_report_df |-> [ asset |-> data_report_df[k], result |-> << >> ] ]
  ELSE MergeLeft(data_report_df, results_df, 1)

-----------------------------------------------------------------------------
(* Properties.  The ThermalCalculator declares no system_type parameter, and *)
(* both processors pass one (data_processor.py:92, circulating_processor.py: *)
(* 105): under Spec every breather-required asset ends at that call.         *)
(* SpecEngine also has the runs in which the call is made with the declared  *)
(* parameters, so that the stages behind the call are exercised.             *)

\* C1 (capacity monotonicity): every breather a stored result returns - in
\* selected_breather, as lcc_breather or as cost_benefit_breather - has a max
\* air flow greater than or equal to the cfm_required computed for the asset
\* (by the thermal analysis for splash, by the flow analysis for circulating).
C1_CapacityMonotonicity ==
  \A idx \in DOMAIN results :
    LET result == results[idx]
        cfm_required == IF system = "splash"
                        THEN result.thermal_analysis.cfm_required
                        ELSE result.flow_analysis.cfm_required
        recommended ==
          { result.selected_breather[k] : k \in DOMAIN result.selected_breather }
            \cup ({ result.lcc_breather, result.cost_benefit_breather } \ { NoRow })
    IN  \A i \in recommended :
          Pool[i][ColCfm] # NaN /\ Pool[i][ColCfm] >= cfm_required

\* a result with a default, an LCC and a cost-benefit recommendation, for an
\* asset whose required capacity exceeds the rating of a breather of the catalog
C1_Witness ==
  \E idx \in DOMAIN results :
    /\ results[idx].success
    /\ results[idx].selected_breather # << >>
    /\ results[idx].lcc_breather # NoRow
    /\ results[idx].cost_benefit_breather # NoRow
    /\ \E i \in RowSet(breather_catalog) :
         Pool[i][ColCfm] <
           (IF system = "splash" THEN results[idx].thermal_analysis.cfm_required
            ELSE results[idx].flow_analysis.cfm_required)

\* C2 (mobile strictness): for a breather-required asset that requires mobile
\* use, no breather without the mobile-rated flag is returned as default, LCC
\* or cost-benefit recommendation; and when the processor's catalog holds no
\* mobile-rated breather the result is 'No Solution Found' with an empty
\* selection.
C2_MobileStrictness ==
  \A idx \in DOMAIN results :
    LET result == results[idx]
        config == IF system = "splash" THEN SplashFinalConfig(idx)
                  ELSE CirculatingFinalConfig(idx)
        recommended ==
          { result.selected_breather[k] : k \in DOMAIN result.selected_breather }
            \cup ({ result.lcc_breather, result.cost_benefit_breather } \ { NoRow })
    IN  ( /\ Get(config, "mobile_application", FALSE) = TRUE
          /\ Get(config, "criticality", "A") \in { "A", "B1", "B2" } )
        => /\ \A i \in recommended : Pool[i][ColMobile] = TRUE
           /\ (\A i \in RowSet(breather_catalog) : Pool[i][ColMobile] # TRUE)
              => /\ result.result_status = "No Solution Found"
                 /\ result.selected_breather = << >>

\* C3 (criticality short-circuit): the result of an asset whose effective
\* criticality is C is 'No Breather Required' with success, whatever the
\* catalog of the processor holds.
C3_CriticalityShortCircuit ==
  \A idx \in DOMAIN results :
    LET config == IF system = "splash" THEN SplashFinalConfig(idx)
                  ELSE CirculatingFinalConfig(idx)
    IN  Get(config, "criticality", "A") = "C"
        => /\ results[idx].result_status = "No Breather Required"
           /\ results[idx].success

C5_Determinism ==
  /\ [](\A idx \in DOMAIN results :
          results[idx] =
            IF system = "splash"
            THEN process_single_record(EmptyMemo, full_dataset[idx], idx,
                                       SplashFinalConfig(idx),
                                       breather_catalog).result
            ELSE _process_single_record(EmptyMemo, full_dataset,
                                        full_dataset[idx], idx,
                                        CirculatingFinalConfig(idx),
                                        breather_catalog).result)
  /\ [][breather_catalog' = breather_catalog /\ full_dataset' = full_dataset]_vars

\* a second asset was resolved, with a recommendation, on an instance whose
\* memo held the columns found for the first, under another configuration
C5_Witness ==
  /\ Cardinality(DOMAIN results) = 2
  /\ catalog_columns # EmptyMemo
  /\ \A idx \in DOMAIN results : results[idx].selected_breather # << >>
  /\ \E idx \in DOMAIN overrides : idx \in DOMAIN results

\* C6 (exception isolation): a result whose processing raised an exception
\* has status 'Error', success false and no selected breather.
C6_ExceptionGivesError ==
  \A idx \in DOMAIN results :
    results[idx].error_message.kind \in { "TypeError", "KeyError" }
    => /\ results[idx].result_status = "Error"
       /\ ~results[idx].success
       /\ results[idx].selected_breather = << >>

\* C7 (batch completion): at every asset boundary the results map holds one
\* complete result for each asset visited so far and none for the others; a
\* stored result is never changed by a later asset; and process_all_records
\* reaches its return with one result per asset of its input, whatever
\* failed on the way.
C7_BatchRunsToEnd ==
  /\ [](/\ DOMAIN results = { data_to_process[k] : k \in 1..(cursor - 1) }
        /\ \A idx \in DOMAIN results :
             /\ results[idx].row_index = idx
             /\ results[idx].result_status \in
                  { "No Breather Required", "Optimal", "Sub-optimal",
                    "Optimal - Remote Installation", "No Solution Found",
                    "Failed", "Error" }
             /\ results[idx].success \in BOOLEAN)
  /\ [][\A idx \in DOMAIN results :
          idx \in DOMAIN results' /\ results'[idx] = results[idx]]_vars
  /\ <>(/\ returned
        /\ DOMAIN results = { data_to_process[k] : k \in DOMAIN data_to_process }
        /\ Cardinality(DOMAIN results) = Len(data_to_process))

\* process_all_records returned the results of two assets, the first of
\* which had failed
C7_Witness ==
  /\ returned
  /\ Cardinality(DOMAIN results) = 2
  /\ ~results[data_to_process[1]].success
  /\ results[data_to_process[1]].error_message # NoExc

\* C8 (capacity gate): apply_rule_3 keeps exactly the catalog entries whose
\* max air flow is greater than or equal to the required capacity, in catalog
\* order (required 2.5 with X = 2.0 and Y = 3.0 keeps only Y); the splash
\* result records that many candidates, a single survivor that passes the
\* later rules is the default recommendation, and when no entry qualifies the
\* result is 'No Solution Found' with no operational filter and no relaxation.
C8_CapacityGate ==
  /\ \A catalog \in Catalogs :
       \A required \in { 0, 1999, 2000, 2001, 2500, 3000, 3001, 10000, 10001 } :
         apply_rule_3(catalog, required).rows =
           SelectSeq(catalog.rows, LAMBDA i : Pool[i][ColCfm] >= required)
  /\ apply_rule_3(Frame(<< 1, 2 >>), 2500).rows = << 2 >>
  /\ \A idx \in DOMAIN results :
       LET result == results[idx]
           cfm_required == result.thermal_analysis.cfm_required
           qualifying == SelectSeq(breather_catalog.rows,
                                   LAMBDA i : Pool[i][ColCfm] >= cfm_required)
           gate == SelectSeq(result.rule_trace, LAMBDA line : line.rule = "3")
       IN  system = "splash" /\ result.thermal_analysis.success
           => /\ gate = << Line("3", "breathers meet CFM", Len(qualifying)) >>
              /\ qualifying = << >>
                 => /\ result.result_status = "No Solution Found"
                    /\ ~result.success
                    /\ result.selected_breather = << >>
                    /\ result.error_message =
                         Msg("No breathers found with CFM >= required")
                    /\ \A k \in DOMAIN result.rule_trace :
                         result.rule_trace[k].rule \in { "1", "2", "3" }
              /\ Len(qualifying) = 1 /\ result.success
                 => result.selected_breather = qualifying

\* the scenario of the example: the required capacity lies between the
\* ratings of X and Y, the gate keeps Y alone and Y is the default
C8_Witness ==
  \E idx \in DOMAIN results :
    /\ system = "splash"
    /\ breather_catalog.rows = << 1, 2 >>
    /\ results[idx].thermal_analysis.cfm_required > Pool[1][ColCfm]
    /\ results[idx].thermal_analysis.cfm_required <= Pool[2][ColCfm]
    /\ results[idx].selected_breather = << 2 >>

\* C9 (missing catalog): when the catalog of the processor is empty (or was
\* brand-filtered away), a breather-required asset gets an 'Error' or
\* 'No Solution Found' result with no selected breather, and no stage ran for
\* it: no volume, thermal or flow analysis is stored and its trace holds no
\* line of rule 2 or later.
C9_MissingCatalog ==
  \A idx \in DOMAIN results :
    LET result == results[idx]
        config == IF system = "splash" THEN SplashFinalConfig(idx)
                  ELSE CirculatingFinalConfig(idx)
    IN  ( /\ IsEmpty(breather_catalog)
          /\ Get(config, "criticality", "A") \in { "A", "B1", "B2" } )
        => /\ result.result_status \in { "Error", "No Solution Found" }
           /\ result.selected_breather = << >>
           /\ \A k \in DOMAIN result.rule_trace : result.rule_trace[k].rule = "1"
           /\ IF system = "splash" THEN result.thermal_analysis = NoThermal
              ELSE result.flow_analysis = NoFlow

\* C10 (insufficient data): a breather-required splash asset with no positive
\* declared oil capacity and without four present, positive dimensions gets
\* 'No Solution Found', success false, an empty selection and a non-empty
\* message, and no gate or filter ran for it (its trace holds rule 1 at most).
C10_InsufficientData ==
  \A idx \in DOMAIN results :
    LET result == results[idx]
        row == full_dataset[idx]
        positive(x) == x # NaN /\ x > 0
    IN  ( /\ system = "splash"
          /\ Get(SplashFinalConfig(idx), "criticality", "A") \in { "A", "B1", "B2" }
          /\ ~positive(row.oil_capacity)
          /\ ~( /\ positive(row.height) /\ positive(row.width)
                /\ positive(row.length) /\ positive(row.oil_level) ) )
        => /\ result.result_status = "No Solution Found"
           /\ ~result.success
           /\ result.selected_breather = << >>
           /\ result.lcc_breather = NoRow /\ result.cost_benefit_breather = NoRow
           /\ result.error_message # NoExc /\ result.error_message.kind # ""
           /\ \A k \in DOMAIN result.rule_trace : result.rule_trace[k].rule = "1"
           /\ result.rejected_candidates = << >>

\* the thermal analysis reported that the volume cannot be computed
C10_Witness ==
  \E idx \in DOMAIN results :
    /\ system = "splash"
    /\ ~IsEmpty(breather_catalog)
    /\ results[idx].thermal_analysis.volumes.calculation_method = "insufficient_data"
    /\ results[idx].error_message.kind = "Thermal calculation failed"
    /\ results[idx].result_status = "No Solution Found"

\* C11 (status vocabulary): every result that process_all_records has stored,
\* of the splash and of the circulating processor, has a status among
\* 'No Breather Required', 'Optimal', 'Sub-optimal',
\* 'Optimal - Remote Installation', 'No Solution Found', 'Error'.
C11_StatusVocabulary ==
  \A idx \in DOMAIN results :
    results[idx].result_status \in
      { "No Breather Required", "Optimal", "Sub-optimal",
        "Optimal - Remote Installation", "No Solution Found", "Error" }

\* C12 (declared capacity first): the volumes a stored thermal analysis holds
\* come from the declared oil capacity when the row has a positive one
\* (method oil_capacity, v_oil the capacity in gallons, v_sump = v_oil / 30%),
\* from the four dimensions only when it has none, and are insufficient_data
\* only when the row has neither.
C12_CapacityFirst ==
  \A idx \in DOMAIN results :
    LET row == full_dataset[idx]
        volumes == results[idx].thermal_analysis.volumes
    IN  (system = "splash" /\ volumes.calculation_method # Unset)
        => IF row.oil_capacity # NaN /\ row.oil_capacity > 0
           THEN /\ volumes.calculation_method = "oil_capacity"
                /\ volumes.v_oil = (row.oil_capacity * LITERS_TO_GALLONS) \div 10
                /\ volumes.v_sump = (volumes.v_oil * 100) \div DEFAULT_OIL_PERCENTAGE
           ELSE IF \A d \in { row.height, row.width, row.length, row.oil_level } :
                     d # NaN /\ d > 0
           THEN volumes.calculation_method = "dimensions"
           ELSE volumes.calculation_method = "insufficient_data"

\* C13 (temperature differential): calculate_temperature_differential returns
\* the greatest minus the least of the operating and ambient bounds that are
\* available when there are at least two of them and the difference is at
\* least 10, and 40 otherwise - for the function on pairs with and without
\* bounds, and for the delta_t of every stored thermal analysis, whose bounds
\* are those parsed from the row's operating temperature and the ambient
\* temperatures of the asset's configuration; (125, 150) with (60, 80) gives 90.
C13_TemperatureDifferential ==
  LET Expected(operating_temps, ambient_temps) ==
        LET bounds == { operating_temps[k] : k \in DOMAIN operating_temps }
                        \cup { ambient_temps[k] : k \in DOMAIN ambient_temps }
        IN  IF /\ Len(operating_temps) + Len(ambient_temps) >= 2
               /\ Max(bounds) - Min(bounds) >= 10
            THEN Max(bounds) - Min(bounds)
            ELSE 40
  IN  /\ calculate_temperature_differential(<< 125, 150 >>, << 60, 80 >>) = 90
      /\ \A operating_temps \in { << >>, << 125, 150 >>, << 72, 72 >>, << 68, 77 >> },
            ambient_temps \in { << >>, << 60, 80 >>, << 70, 75 >>, << 70 >> } :
           calculate_temperature_differential(operating_temps, ambient_temps)
             = Expected(operating_temps, ambient_temps)
      /\ \A idx \in DOMAIN results :
           (system = "splash" /\ results[idx].thermal_analysis.success)
           => LET config == SplashFinalConfig(idx)
              IN  results[idx].thermal_analysis.delta_t
                    = Expected(extract_temperatures(full_dataset[idx].operating_temps),
                               << config["min_amb_temp"], config["max_amb_temp"] >>)

\* the thermal analysis of the bearing whose operating temperature reads
\* 125 to 150 degrees, under the ambient 60 to 80, is stored with delta_t 90
C13_Witness ==
  \E idx \in DOMAIN results :
    /\ system = "splash"
    /\ results[idx].thermal_analysis.success
    /\ full_dataset[idx].operating_temps = << 125, 150 >>
    /\ SplashFinalConfig(idx)["min_amb_temp"] = 60
    /\ SplashFinalConfig(idx)["max_amb_temp"] = 80
    /\ results[idx].thermal_analysis.delta_t = 90

\* C14 (round-trip merge): at any point of the batch, merging the table of the
\* stored results (one row per asset label) onto the rows of the data report
\* gives as many rows as the report has, in the order of the report, the k-th
\* row holding the k-th asset with the notes and the model of the result stored
\* under k, and with no result when none is stored under k.
C14_MergeRoundTrip ==
  LET merged == merge_results_with_original(full_dataset, get_results_as_dataframe)
  IN  /\ Len(merged) = Len(full_dataset)
      /\ \A k \in DOMAIN full_dataset :
           /\ merged[k].asset = full_dataset[k]
           /\ IF k \in DOMAIN results
              THEN /\ Len(merged[k].result) = 1
                   /\ merged[k].result[1].Installation_Notes
                        = (IF results[k].selected_breather # << >>
                           THEN results[k].installation_notes
                           ELSE results[k].error_message)
                   /\ results[k].selected_breather # << >>
                      => merged[k].result[1].Breather_Model
                           = Pool[results[k].selected_breather[1]][ColModel]
              ELSE merged[k].result = << >>

\* the batch has returned on a report of two assets of which only the second
\* belongs to the processor, and its result holds a breather
C14_Witness ==
  /\ returned
  /\ Len(full_dataset) = 2
  /\ DOMAIN results = { 2 }
  /\ results[2].selected_breather # << >>

\* C15 (inclusive fallback): each of the filters water contact, extended
\* service, humidity, contamination, oil mist and vibration, applied for an
\* asset of the report to a non-empty part of the processor's catalog, returns
\* the breathers of that part that have the rating the asset asks for, in
\* their order, when there is one, and otherwise the part unchanged with a
\* trace line marked (fallback); the output is never empty.
C15_InclusiveFallback ==
  \A idx \in DOMAIN full_dataset :
    LET config == IF system = "splash" THEN SplashFinalConfig(idx)
                  ELSE CirculatingFinalConfig(idx)
        factors == _extract_operational_factors(full_dataset[idx], config)
        Has(i, c) == Pool[i][c] = TRUE
        Ideal(name) ==
          CASE name = "wcci" ->
                 { i \in PoolIds :
                     Has(i, CASE factors.wcci = "High" -> ColWcHigh
                              [] factors.wcci = "Medium" -> ColWcMed
                              [] OTHER -> ColWcLow) }
            [] name = "esi" ->
                 { i \in PoolIds : Has(i, ColES) <=> factors.esi = "Extended service" }
            [] name = "humidity" ->
                 { i \in PoolIds :
                     Has(i, IF factors.humidity_level = "High" THEN ColRhHigh
                            ELSE ColRhMid) }
            [] name = "contamination" ->
                 { i \in PoolIds :
                     (factors.ci # "Low" \/ factors.particle_filter_required)
                     => Has(i, ColES) }
            [] name = "oil_mist" ->
                 { i \in PoolIds : Has(i, ColMist) <=> factors.oil_mist_evidence }
            [] name = "vibration" ->
                 { i \in PoolIds : Has(i, ColVib) <=> factors.vibration = ">0.4 ips" }
        Marked(line) ==
          line.text \in { "none found (fallback)", "only E.S. available (fallback)",
                          "none available (fallback)",
                          "none found for this range (fallback)",
                          "no E.S. found (fallback)",
                          "not required, but only capable models found (fallback)",
                          "required, but none found (fallback)",
                          "only HD available (fallback)", "no HD found (fallback)" }
    IN  \A part \in SUBSET RowSet(breather_catalog) \ { {} } :
        \A name \in { "wcci", "esi", "humidity", "contamination", "oil_mist",
                      "vibration" } :
          LET breathers == Filtered(breather_catalog, part)
              ideal == Filtered(breathers, Ideal(name))
              out == ApplyFilter(name, catalog_columns, breathers, factors)
          IN  /\ ~IsEmpty(out.breathers)
              /\ RowSet(out.breathers) \subseteq RowSet(breathers)
              /\ IF ~IsEmpty(ideal)
                 THEN out.breathers = ideal /\ ~Marked(out.trace)
                 ELSE out.breathers = breathers /\ Marked(out.trace)

\* a stored result whose operational filters fell back once (no candidate had
\* the rating) and narrowed the candidates once
C15_Witness ==
  \E idx \in DOMAIN results :
    LET trace == results[idx].rule_trace
    IN  /\ \E k \in DOMAIN trace :
             /\ trace[k].rule \in { "4.1", "4.3", "4.4/4.5", "4.6", "4.7", "4.8" }
             /\ trace[k].text \in { "none found (fallback)",
                                    "none found for this range (fallback)",
                                    "no E.S. found (fallback)",
                                    "none available (fallback)",
                                    "required, but none found (fallback)",
                                    "no HD found (fallback)" }
        /\ \E k \in DOMAIN trace :
             /\ trace[k].rule \in { "4.1", "4.3", "4.4/4.5", "4.6", "4.7", "4.8" }
             /\ trace[k].n > 0
             /\ trace[k].n < Len(breather_catalog.rows)

\* C16 (filter order): in the trace of every stored result the lines of the
\* operational filters that were applied stand in the order water contact
\* (4.1), extended service (4.6), humidity (4.3), contamination (4.4/4.5),
\* oil mist (4.7), vibration (4.8), mobile use (4.9): the mobile filter is the
\* last one applied.
C16_FilterOrder ==
  \A idx \in DOMAIN results :
    LET trace == results[idx].rule_trace
        Rank(rule) == CASE rule = "4.1" -> 1 [] rule = "4.6" -> 2
                        [] rule = "4.3" -> 3 [] rule = "4.4/4.5" -> 4
                        [] rule = "4.7" -> 5 [] rule = "4.8" -> 6
                        [] rule = "4.9" -> 7
        applied == { k \in DOMAIN trace :
                       /\ trace[k].rule \in { "4.1", "4.6", "4.3", "4.4/4.5", "4.7",
                                              "4.8", "4.9" }
                       /\ trace[k].text # "Skipped due to Sump Volume < 15 gal" }
    IN  \A j, k \in applied : j < k => Rank(trace[j].rule) < Rank(trace[k].rule)

C18_SuboptimalNote ==
  /\ \A idx \in { data_to_process[k] : k \in DOMAIN data_to_process } :
       LET row == full_dataset[idx]
           config == SplashFinalConfig(idx)
           thermal_analysis ==
             calculate_complete_thermal_analysis(
               row, << config["min_amb_temp"], config["max_amb_temp"] >>,
               Get(config, "safety_factor", CFM_SAFETY_FACTOR))
           gate == apply_rule_3(breather_catalog, thermal_analysis.cfm_required)
           factors == _extract_operational_factors(row, config)
       IN  (system = "splash" /\ thermal_analysis.success /\ ~IsEmpty(gate))
           => \A attempt \in DOMAIN fallback_attempts :
                LET result == SelectStages(catalog_columns, NewResult(idx), row, config,
                                           gate, attempt, thermal_analysis.cfm_required,
                                           factors.desiccant_required,
                                           thermal_analysis.volumes).result
                IN  /\ result.result_status = "Sub-optimal"
                    /\ \E k \in DOMAIN result.installation_notes :
                         /\ result.installation_notes[k].text
                              = "Sub-optimal: Requirements were relaxed."
                         /\ result.installation_notes[k].n = attempt
  /\ \A idx \in DOMAIN results :
       (\E k \in DOMAIN results[idx].installation_notes :
          results[idx].installation_notes[k].text
            = "Sub-optimal: Requirements were relaxed.")
       => \E k \in DOMAIN results[idx].rule_trace :
            results[idx].rule_trace[k].text = "Sub-optimal: Requirements were relaxed."

\* the relaxation was entered for a stored result, and the stages from the
\* sump gate on, given the capacity gate's output and the note of the first
\* attempt, return a breather with the status 'Sub-optimal'
C18_Witness ==
  \E idx \in DOMAIN results :
    LET row == full_dataset[idx]
        config == SplashFinalConfig(idx)
        thermal_analysis == results[idx].thermal_analysis
        gate == apply_rule_3(breather_catalog, thermal_analysis.cfm_required)
        relaxed == SelectStages(catalog_columns, NewResult(idx), row, config, gate, 1,
                                thermal_analysis.cfm_required,
                                _extract_operational_factors(row, config).desiccant_required,
                                thermal_analysis.volumes).result
    IN  /\ system = "splash"
        /\ \E k \in DOMAIN results[idx].rule_trace : results[idx].rule_trace[k].rule = "!"
        /\ relaxed.selected_breather # << >>
        /\ relaxed.result_status = "Sub-optimal"

\* C19 (sump-capacity gate): apply_rule_5, for an asset of the processor and a
\* non-empty part of its catalog, returns the breathers of the part whose sump
\* capacity in the column of the system type (splash column for splash,
\* circulating column for circulating) is at least the asset's oil volume, in
\* their order, when there is one, and otherwise the part unchanged with a
\* fallback line; the output is never empty.
C19_SumpGate ==
  \A idx \in { data_to_process[k] : k \in DOMAIN data_to_process } :
  \A part \in SUBSET RowSet(breather_catalog) \ { {} } :
    LET volumes == calculate_volumes(full_dataset[idx])
        candidate_breathers == Filtered(breather_catalog, part)
        column == IF system = "circulating" THEN ColSumpCirc ELSE ColSumpSplash
        qualifying == Filtered(candidate_breathers,
                               { i \in PoolIds : /\ Pool[i][column] # NaN
                                                 /\ Pool[i][column] >= volumes.v_oil })
        out == apply_rule_5(catalog_columns, candidate_breathers, volumes, system)
    IN  /\ ~IsEmpty(out.filtered_breathers)
        /\ IF ~IsEmpty(qualifying)
           THEN out.filtered_breathers = qualifying
           ELSE /\ out.filtered_breathers = candidate_breathers
                /\ out.trace.text = "No breathers meet volume (fallback)"

\* C19, amended: the same for an asset whose oil volume is known (positive);
\* for an asset whose oil volume is 0 the gate is skipped and returns the part
\* unchanged, unrated breathers included, with the line 'Skipped (Asset volume
\* is 0)'.
C19_SumpGateKnownVolume ==
  \A idx \in { data_to_process[k] : k \in DOMAIN data_to_process } :
  \A part \in SUBSET RowSet(breather_catalog) \ { {} } :
    LET volumes == calculate_volumes(full_dataset[idx])
        candidate_breathers == Filtered(breather_catalog, part)
        column == IF system = "circulating" THEN ColSumpCirc ELSE ColSumpSplash
        qualifying == Filtered(candidate_breathers,
                               { i \in PoolIds : /\ Pool[i][column] # NaN
                                                 /\ Pool[i][column] >= volumes.v_oil })
        out == apply_rule_5(catalog_columns, candidate_breathers, volumes, system)
    IN  /\ ~IsEmpty(out.filtered_breathers)
        /\ IF volumes.v_oil <= 0
           THEN /\ out.filtered_breathers = candidate_breathers
                /\ out.trace.text = "Skipped (Asset volume is 0)"
           ELSE IF ~IsEmpty(qualifying)
           THEN /\ out.filtered_breathers = qualifying
                /\ out.trace.text = "breathers meet volume"
           ELSE /\ out.filtered_breathers = candidate_breathers
                /\ out.trace.text = "No breathers meet volume (fallback)"

\* a stored result whose sump gate dropped a candidate
C19_Witness ==
  \E idx \in DOMAIN results :
    LET trace == results[idx].rule_trace
    IN  \E k \in DOMAIN trace :
          /\ trace[k].rule = "5"
          /\ trace[k].text = "breathers meet volume"
          /\ \E j \in 1..(k - 1) :
               /\ trace[j].rule \in { "3", "4.1", "4.3", "4.4/4.5", "4.6", "4.7",
                                      "4.8", "4.9" }
               /\ trace[j].n > trace[k].n
               /\ \A l \in (j + 1)..(k - 1) : trace[l].n = 0

\* C20 (ranking): for every asset of the report and every non-empty part of
\* the catalog, _rank_and_select_best_breather returns a candidate of the part
\* that no other candidate precedes in the order of the system type -
\* circulating: sump margin, then capacity margin, ascending, then adsorption
\* capacity descending; splash: capacity margin, then sump margin, ascending,
\* then adsorption capacity descending; the sump margin counting only when the
\* sump column resolves and the oil volume is positive - and the standard
\* recommendation, with or without space data, selects exactly that candidate.
C20_RankingOrder ==
  \A idx \in { data_to_process[k] : k \in DOMAIN data_to_process } :
  \A part \in SUBSET RowSet(breather_catalog) \ { {} } :
    LET row == full_dataset[idx]
        config == IF system = "splash" THEN SplashFinalConfig(idx)
                  ELSE CirculatingFinalConfig(idx)
        cfm_required ==
          IF system = "splash"
          THEN calculate_complete_thermal_analysis(
                 row, << config["min_amb_temp"], config["max_amb_temp"] >>,
                 Get(config, "safety_factor", CFM_SAFETY_FACTOR)).cfm_required
          ELSE calculate_gpm_and_cfm(full_dataset, row, idx, config).cfm_required
        context == [ cfm_required |-> cfm_required, desiccant_required |-> FALSE,
                     v_oil |-> calculate_volumes(row).v_oil, system_type |-> system ]
        candidates == Filtered(breather_catalog, part)
        sump_col == IF system = "circulating" THEN ColSumpCirc ELSE ColSumpSplash
        with_sump == sump_col \in breather_catalog.cols /\ context.v_oil > 0
        capacityMargin(i) == (IF Pool[i][ColCfm] = NaN THEN CfmFill ELSE Pool[i][ColCfm])
                             - cfm_required
        sumpMargin(i) == IF with_sump
                         THEN (IF Pool[i][sump_col] = NaN THEN SumpFill
                               ELSE Pool[i][sump_col]) - context.v_oil
                         ELSE 0
        adsorption(i) == IF Pool[i][ColAds] = NaN THEN AdsFill ELSE Pool[i][ColAds]
        first(i) == IF system = "circulating" THEN sumpMargin(i) ELSE capacityMargin(i)
        second(i) == IF system = "circulating" THEN capacityMargin(i) ELSE sumpMargin(i)
        Precedes(i, j) == \/ first(i) < first(j)
                          \/ first(i) = first(j) /\ second(i) < second(j)
                          \/ /\ first(i) = first(j)
                             /\ second(i) = second(j)
                             /\ adsorption(i) > adsorption(j)
        selected == _rank_and_select_best_breather(catalog_columns, candidates, context)
        fits == _get_standard_recommendation(catalog_columns, candidates, EmptyFrame,
                                             TRUE, config, context)
        unmeasured == _get_standard_recommendation(catalog_columns, EmptyFrame,
                                                   candidates, FALSE, config, context)
    IN  /\ selected.exc = NoExc
        /\ selected.choice \in part
        /\ \A j \in part : ~Precedes(j, selected.choice)
        /\ fits.selected_breather = << selected.choice >>
        /\ unmeasured.selected_breather = << selected.choice >>

\* a stored result whose recommended breather was ranked out of at least two
\* candidates that passed the sump gate and fit the available space
C20_Witness ==
  \E idx \in DOMAIN results :
    LET trace == results[idx].rule_trace
    IN  /\ results[idx].selected_breather # << >>
        /\ \E k \in DOMAIN trace :
             /\ trace[k].rule = "5"
             /\ trace[k].text = "breathers meet volume"
             /\ trace[k].n >= 2
        /\ \E k \in DOMAIN trace : trace[k].rule = "6" /\ trace[k].n >= 2
        /\ \E k \in DOMAIN trace : trace[k].rule = "7.1"

\* C21 (cost-benefit recommendation): for every asset of the report and every
\* non-empty part of the catalog, select_cost_benefit_breather returns none
\* when the part has no disposable breather, and otherwise a disposable
\* breather of the part that no other disposable of the part precedes in the
\* order of the default ranking for the system type (splash: capacity margin,
\* then sump margin, ascending, then adsorption capacity descending;
\* circulating: sump margin, then capacity margin, ascending, then adsorption
\* capacity descending).
C21_CostBenefitRanking ==
  \A idx \in { data_to_process[k] : k \in DOMAIN data_to_process } :
  \A part \in SUBSET RowSet(breather_catalog) \ { {} } :
    LET row == full_dataset[idx]
        config == IF system = "splash" THEN SplashFinalConfig(idx)
                  ELSE CirculatingFinalConfig(idx)
        cfm_required ==
          IF system = "splash"
          THEN calculate_complete_thermal_analysis(
                 row, << config["min_amb_temp"], config["max_amb_temp"] >>,
                 Get(config, "safety_factor", CFM_SAFETY_FACTOR)).cfm_required
          ELSE calculate_gpm_and_cfm(full_dataset, row, idx, config).cfm_required
        context == [ cfm_required |-> cfm_required, desiccant_required |-> FALSE,
                     v_oil |-> calculate_volumes(row).v_oil, system_type |-> system ]
        candidates == Filtered(breather_catalog, part)
        disposable == { i \in part : Pool[i][ColType] = "Disposable" }
        sump_col == IF system = "circulating" THEN ColSumpCirc ELSE ColSumpSplash
        with_sump == sump_col \in breather_catalog.cols /\ context.v_oil > 0
        capacityMargin(i) == (IF Pool[i][ColCfm] = NaN THEN CfmFill ELSE Pool[i][ColCfm])
                             - cfm_required
        sumpMargin(i) == IF with_sump
                         THEN (IF Pool[i][sump_col] = NaN THEN SumpFill
                               ELSE Pool[i][sump_col]) - context.v_oil
                         ELSE 0
        adsorption(i) == IF Pool[i][ColAds] = NaN THEN AdsFill ELSE Pool[i][ColAds]
        first(i) == IF system = "circulating" THEN sumpMargin(i) ELSE capacityMargin(i)
        second(i) == IF system = "circulating" THEN capacityMargin(i) ELSE sumpMargin(i)
        Precedes(i, j) == \/ first(i) < first(j)
                          \/ first(i) = first(j) /\ second(i) < second(j)
                          \/ /\ first(i) = first(j)
                             /\ second(i) = second(j)
                             /\ adsorption(i) > adsorption(j)
        selected == select_cost_benefit_breather(catalog_columns, candidates, context)
    IN  /\ selected.exc = NoExc
        /\ IF disposable = {} THEN selected.choice = NoRow
           ELSE /\ selected.choice \in disposable
                /\ \A j \in disposable : ~Precedes(j, selected.choice)

\* C22 (LCC recommendation): for every asset of the report and every part of
\* the catalog, select_lcc_breather returns none for the empty part and
\* otherwise a breather of the preferred group - the rebuildables of the part,
\* the disposables when it has no rebuildable, the whole part when it has
\* neither - that no other breather of that group precedes in the order
\* capacity margin ascending, then adsorption capacity descending.
C22_LccRanking ==
  \A idx \in { data_to_process[k] : k \in DOMAIN data_to_process } :
  \A part \in SUBSET RowSet(breather_catalog) :
    LET row == full_dataset[idx]
        config == IF system = "splash" THEN SplashFinalConfig(idx)
                  ELSE CirculatingFinalConfig(idx)
        cfm_required ==
          IF system = "splash"
          THEN calculate_complete_thermal_analysis(
                 row, << config["min_amb_temp"], config["max_amb_temp"] >>,
                 Get(config, "safety_factor", CFM_SAFETY_FACTOR)).cfm_required
          ELSE calculate_gpm_and_cfm(full_dataset, row, idx, config).cfm_required
        context == [ cfm_required |-> cfm_required, desiccant_required |-> FALSE,
                     v_oil |-> calculate_volumes(row).v_oil, system_type |-> system ]
        rebuildable == { i \in part : Pool[i][ColType] = "Rebuildable" }
        disposable == { i \in part : Pool[i][ColType] = "Disposable" }
        group == IF rebuildable # {} THEN rebuildable
                 ELSE IF disposable # {} THEN disposable
                 ELSE part
        capacityMargin(i) == (IF Pool[i][ColCfm] = NaN THEN CfmFill ELSE Pool[i][ColCfm])
                             - cfm_required
        adsorption(i) == IF Pool[i][ColAds] = NaN THEN AdsFill ELSE Pool[i][ColAds]
        Precedes(i, j) == \/ capacityMargin(i) < capacityMargin(j)
                          \/ /\ capacityMargin(i) = capacityMargin(j)
                             /\ adsorption(i) > adsorption(j)
        selected == select_lcc_breather(Filtered(breather_catalog, part), context)
    IN  /\ selected.exc = NoExc
        /\ (selected.choice = NoRow) <=> (part = {})
        /\ part # {} => /\ selected.choice \in group
                        /\ \A j \in group : ~Precedes(j, selected.choice)

\* a stored result whose LCC breather is a rebuildable one, out of a catalog
\* that also holds a disposable breather with a smaller capacity margin
C22_Witness ==
  \E idx \in DOMAIN results :
    /\ results[idx].lcc_breather # NoRow
    /\ Pool[results[idx].lcc_breather][ColType] = "Rebuildable"
    /\ \E i \in RowSet(breather_catalog) :
         /\ Pool[i][ColType] = "Disposable"
         /\ Pool[i][ColCfm] < Pool[results[idx].lcc_breather][ColCfm]

C24_FlowResolution ==
  \A idx \in DOMAIN results :
    LET row == full_dataset[idx]
        config == CirculatingFinalConfig(idx)
        flow_analysis == results[idx].flow_analysis
        manual == Get(config, "enable_manual_gpm", FALSE)
                  /\ Get(config, "manual_gpm_override", 0) > 0
        cross == IF row.machine # ""
                 THEN SumFlows(full_dataset,
                               _find_pump_siblings(full_dataset, row.machine, idx), 1)
                 ELSE 0
        declared == row.oil_capacity # NaN /\ row.oil_capacity > 0
        category_default ==
          IF row.maint_point = "Turbine Bearing (Circulating)" THEN 60000
          ELSE IF row.maint_point = "Hydraulic System Reservoir (Oil)" THEN 40000
          ELSE IF row.maint_point = "Circulating System Reservoir (Oil)" THEN 35000
          ELSE 15000
    IN  (system = "circulating" /\ flow_analysis # NoFlow)
        => IF manual
           THEN /\ flow_analysis.total_flow = config["manual_gpm_override"]
                /\ flow_analysis.calculation_method = "Manual Override"
           ELSE IF cross > 0
           THEN /\ flow_analysis.total_flow = cross
                /\ flow_analysis.calculation_method = "Cross-Reference"
           ELSE IF declared
           THEN /\ flow_analysis.total_flow = (row.oil_capacity * LITERS_TO_GALLONS) \div 30
                /\ flow_analysis.calculation_method = "Estimated from Oil Capacity"
           ELSE /\ flow_analysis.total_flow = category_default
                /\ flow_analysis.calculation_method
                     \notin { "Manual Override", "Cross-Reference",
                              "Estimated from Oil Capacity" }

C26_SplashSolution ==
  \A idx \in DOMAIN results :
    LET row == full_dataset[idx]
        config == SplashFinalConfig(idx)
        required == calculate_thermal_expansion(
                      calculate_volumes(row),
                      calculate_temperature_differential(
                        extract_temperatures(row.operating_temps),
                        << config["min_amb_temp"], config["max_amb_temp"] >>),
                      Get(config, "safety_factor", CFM_SAFETY_FACTOR)).cfm_required
    IN  ( /\ system = "splash"
          /\ apply_rule_1(row, config).breather_required
          /\ calculate_volumes(row).calculation_method # "insufficient_data"
          /\ _extract_operational_factors(row, config).mobile_application # TRUE
          /\ \A i \in RowSet(breather_catalog) :
               Pool[i][ColType] \in { "Disposable", "Rebuildable" }
          /\ \E i \in RowSet(breather_catalog) :
               Pool[i][ColCfm] # NaN /\ Pool[i][ColCfm] >= required )
        => /\ results[idx].success
           /\ results[idx].selected_breather # << >>

\* C27 (circulating liveness of a solution): the result stored for a
\* breather-required circulating asset with mobile use not required and a
\* catalog holding at least one breather whose max fluid flow is at or above
\* the resolved flow and whose max air flow is at or above the required
\* capacity, has success = true, the status 'Optimal' and a non-empty
\* selected_breather.
C27_CirculatingSolution ==
  \A idx \in DOMAIN results :
    LET row == full_dataset[idx]
        final_config == CirculatingFinalConfig(idx)
        flow_analysis == calculate_gpm_and_cfm(full_dataset, row, idx, final_config)
    IN  ( /\ system = "circulating"
          /\ apply_rule_1(row, final_config).breather_required
          /\ _extract_operational_factors(row, final_config).mobile_application # TRUE
          /\ \E i \in RowSet(breather_catalog) :
               /\ Pool[i][ColGpm] # NaN /\ Pool[i][ColGpm] >= flow_analysis.total_flow
               /\ Pool[i][ColCfm] # NaN /\ Pool[i][ColCfm] >= flow_analysis.cfm_required )
        => /\ results[idx].success
           /\ results[idx].result_status = "Optimal"
           /\ results[idx].selected_breather # << >>

C29_RelaxationNeverSucceeds ==
  /\ \A idx \in { data_to_process[k] : k \in DOMAIN data_to_process } :
     \A part \in SUBSET RowSet(breather_catalog) \ { {} } :
       LET row == full_dataset[idx]
           config == SplashFinalConfig(idx)
           volumes == calculate_volumes(row)
           candidates == Filtered(breather_catalog, part)
           Pass(exclude_filters) ==
             apply_rule_4(catalog_columns, candidates, row, config, volumes,
                          exclude_filters).filtered_breathers
       IN  (system = "splash" /\ IsEmpty(Pass({})))
           => /\ _extract_operational_factors(row, config).mobile_application = TRUE
              /\ \A i \in part : ~Pool[i][ColMobile]
              /\ \A k \in DOMAIN fallback_attempts : IsEmpty(Pass(fallback_attempts[k]))
  /\ \A idx \in DOMAIN results :
       LET result == results[idx]
       IN  /\ (\E k \in DOMAIN result.rule_trace : result.rule_trace[k].rule = "!")
              => /\ result.result_status = "No Solution Found"
                 /\ result.selected_breather = << >>
                 /\ ~result.success
           /\ \A k \in DOMAIN result.rule_trace :
                result.rule_trace[k].text # "Sub-optimal: Requirements were relaxed."
           /\ \A k \in DOMAIN result.installation_notes :
                result.installation_notes[k].text
                  # "Sub-optimal: Requirements were relaxed."

\* a stored result for which the relaxation was entered, on a capacity-gate
\* output of at least two candidates, and ended without a breather
C29_Witness ==
  \E idx \in DOMAIN results :
    LET trace == results[idx].rule_trace
    IN  /\ system = "splash"
        /\ \E k \in DOMAIN trace : trace[k].rule = "3" /\ trace[k].n >= 2
        /\ \E k \in DOMAIN trace : trace[k].rule = "!"
        /\ results[idx].result_status = "No Solution Found"

\* C30 (particle filtration keeps extended-service candidates): for every
\* asset of the report, every extended-service setting (derived, or manually
\* set to 'Extended service' or to 'Disposable'), the forced
\* high-particle-removal flag set or not, and every candidate set drawn from
\* the catalog: when particle filtration is required and the set that enters
\* the extended-service filter of apply_rule_4 holds an extended-service-rated
\* candidate, every candidate that leaves the contamination filter is
\* extended-service rated.
C30_ParticleKeepsExtendedService ==
  \A idx \in { data_to_process[k] : k \in DOMAIN data_to_process } :
  \A part \in SUBSET RowSet(breather_catalog) \ { {} } :
  \A forced \in BOOLEAN :
  \A manual \in { None, "Extended service", "Disposable" } :
    LET row == full_dataset[idx]
        base == IF system = "splash" THEN SplashFinalConfig(idx)
                ELSE CirculatingFinalConfig(idx)
        config == Patch(base, IF manual = None
                              THEN [ high_particle_removal |-> forced ]
                              ELSE [ high_particle_removal |-> forced,
                                     esi_manual |-> manual ])
        factors == _extract_operational_factors(row, config)
        candidates == Filtered(breather_catalog, part)
        mobile == IF factors.mobile_application = TRUE
                  THEN _apply_mobile_filter(catalog_columns, candidates, TRUE).breathers
                  ELSE candidates
        wcci == ApplyFilter("wcci", catalog_columns, mobile, factors).breathers
        entering == ApplyFilter("desiccant", catalog_columns, wcci, factors).breathers
        esi == ApplyFilter("esi", catalog_columns, entering, factors).breathers
        humidity == ApplyFilter("humidity", catalog_columns, esi, factors).breathers
        leaving == ApplyFilter("contamination", catalog_columns, humidity,
                               factors).breathers
    IN  ( /\ manual = None => "esi_manual" \notin DOMAIN base
          /\ factors.particle_filter_required
          /\ \E i \in RowSet(entering) : Pool[i][ColES] )
        => \A i \in RowSet(leaving) : Pool[i][ColES]

=============================================================================
